---- MODULE Spec2Model ----
(***************************************************************************)
(* A model of the batch image-generation pipeline of banana-image-gen:     *)
(*   - the Job Store protocol        (src/src/services/jobManager.ts)      *)
(*   - the retry policy              (src/src/services/openrouter.ts)      *)
(*   - the batch processor           (src/src/utils/templateParser.ts,     *)
(*                                    lines 154-332: batchProcessor)       *)
(*   - the Generate handler          (src/unnamed/part_000, lines 224-328) *)
(*   - the template expander         (src/src/utils/templateParser.ts,     *)
(*                                    lines 1-124)                         *)
(*                                                                         *)
(* The specifications share the variables:                                 *)
(*   SpecStore   any sequence of Job Store operations on one job record    *)
(*   Spec        one accepted submission: createJob, then the background   *)
(*               processBatches run, with the environment choosing the     *)
(*               outcome of every generation, storage and KV call          *)
(*   LiveSpec    the same run without expiry of the record, under the      *)
(*               fairness of the JavaScript event loop                     *)
(*   SpecExpand  validateVariables / expandTemplate applied to bounded     *)
(*               templates and assignments                                 *)
(*   SpecHandle  the whole of Generate.handle, the 400 response included   *)
(*   SpecMerge   a caller issuing only updateJobProgress merges            *)
(*   SpecFeed    one GenerateStatus live feed (src/unnamed/part_000,       *)
(*               lines 40-147) beside the writers of the record            *)
(*   LiveFeed    SpecFeed under the fairness of the feed's own loop        *)
(*   SpecRead    the read-only endpoints beside the writers of the record  *)
(*   SpecIds     the image-id encoding and its parsing                     *)
(*   SpecClient  one generateImageWithRetry call and the responses it met  *)
(*   SpecRace    two overlapping updateJobProgress calls for one job       *)
(*   SpecPool    one runWithConcurrency call (templateParser.ts 198-226)   *)
(***************************************************************************)
EXTENDS Integers, Sequences, FiniteSets, TLC

VARIABLES
    \* ---- the KV namespace, restricted to the key job:<jobId>
    job,          \* the stored JobState, or NoJob
    lastOp,       \* ghost: the Job Store operation that ran last
    opThrew,      \* ghost: whether that operation threw
    lateMerge,    \* ghost: an operation appended to a complete/failed record
    \* ---- the Generate handler and the processBatches run
    hpc,          \* position of Generate.handle
    bpc,          \* position of processBatches
    nPrompts,     \* expansion.prompts.length
    batchSize,    \* effectiveBatchSize passed to processBatches
    bi,           \* 1-based number of the batch the for-loop is at
    tpc,          \* per prompt: position of its processPrompt call
    attempt,      \* per prompt: loop variable of generateImageWithRetry
    hist,         \* ghost, per prompt: outcomes of its generateImage calls
    genCalls,     \* ghost, per prompt: generateImage calls started
    delays,       \* ghost, per prompt: backoff delays slept, in ms
    calls,        \* ghost, per prompt: processPrompt invocations
    batchImages,  \* local completedImages of the current loop iteration
    batchErrors,  \* local errors of the current loop iteration
    jobLocal,     \* the record updateJobProgress read and modified
    mergesDone,   \* ghost: updateJobProgress calls that returned
    kvFailed,     \* ghost: a KV call of the run threw or found no record
    \* ---- the template expander
    template,     \* the promptTemplate, a sequence of tokens
    variables,    \* the assignment: name -> list of candidate values
    validation,   \* result of validateVariables, or NoResult
    expansion,    \* result of expandTemplate, or NoResult
    httpResponse, \* what Generate.handle returned, or NoResult
    \* ---- a caller issuing updateJobProgress merges
    sentImages,   \* ghost: the images lists passed so far, concatenated
    sentErrors,   \* ghost: the errors lists passed so far, concatenated
    \* ---- the GenerateStatus live feed
    fpc,          \* position of GenerateStatus.handle and its monitor loop
    lastSentCount,\* the loop's lastSentCount
    pollCount,    \* the loop's pollCount
    carried,      \* ghost: the images of all progress events, in order
    lastTick,     \* ghost: the events the last poll tick emitted
    surfaced,     \* ghost: error entries emitted before the last tick
    seen,         \* ghost: what the getJob of the last poll tick returned
    completes,    \* ghost: complete events emitted so far
    clientGone,   \* the readable side is gone: every writer.write rejects
    dropped,      \* ghost: the writes of the last poll tick were rejected
    \* ---- the read-only endpoints
    readResponse, \* what the last read-only endpoint returned, or NoResult
    \* ---- the image-id encoding
    idJob,        \* the job id handed to processPrompt, a character sequence
    idIndex,      \* prompt.index
    idStamp,      \* the value of Date.now()
    issuedId,     \* the image id processPrompt built, or NoId
    decoded,      \* what ImageGet / ImagesDownload parsed from it, or NoResult
    \* ---- one generateImageWithRetry call on its own
    fetched,      \* ghost: the responses its generateImage calls received
    \* ---- the request body of Generate.handle
    requestedBatchSize, \* batchSize of the validated request body
    \* ---- two overlapping updateJobProgress calls for one job
    racer,        \* per call: its position, its arguments, the record it read
    raceLog,      \* ghost: the KV reads and writes of the two calls, in order
    \* ---- one runWithConcurrency call
    ppc,          \* position of the call itself
    concurrency,  \* its concurrency argument
    nextIndex,    \* the shared cursor nextIndex
    workers,      \* per worker: its position and the index it holds
    results,      \* the results array; "empty" is a slot not yet assigned
    settled       \* ghost: per item, the outcomes of the fn calls it was passed to

storeVars == <<job, lastOp, opThrew, lateMerge>>
batchVars == <<hpc, bpc, nPrompts, batchSize, bi, tpc, attempt, hist, genCalls,
               delays, calls, batchImages, batchErrors, jobLocal, mergesDone,
               kvFailed>>
expandVars == <<template, variables, validation, expansion, httpResponse>>
mergeVars == <<sentImages, sentErrors>>
feedVars == <<fpc, lastSentCount, pollCount, carried, lastTick, surfaced, seen,
              completes, clientGone, dropped>>
readVars == <<readResponse>>
idVars == <<idJob, idIndex, idStamp, issuedId, decoded>>
clientVars == <<fetched>>
requestVars == <<requestedBatchSize>>
raceVars == <<racer, raceLog>>
poolVars == <<ppc, concurrency, nextIndex, workers, results, settled>>
extraVars == <<clientVars, requestVars, raceVars, poolVars>>
vars == <<storeVars, batchVars, expandVars, mergeVars, feedVars, readVars, idVars, extraVars>>

(***************************************************************************)
(* Bounds of the model.                                                    *)
(***************************************************************************)
MaxPrompts == 3     \* largest totalPrompts of a job
MaxBatch == 3       \* largest effective batch size
MaxStored == 3      \* SpecStore: longest completedImages / errors list
MaxMerge == 2       \* SpecStore: longest list passed to one operation
MaxTplLen == 3      \* SpecExpand: longest template, in tokens
MaxVals == 2        \* SpecExpand: longest candidate list
MaxTotal == 4       \* SpecMerge: largest totalPrompts of a job
maxPolls == 3       \* SpecFeed: the cap of the poll loop (600 in the code)
MaxDownloadIds == 1 \* SpecRead: most image ids in one download request
MaxReadTotal == 2   \* SpecRead: largest totalPrompts of the job read
MaxIndex == 10      \* SpecIds: largest prompt index of an image id
MaxStamp == 10      \* SpecIds: largest value of Date.now()

(***************************************************************************)
(* Program constants.                                                      *)
(***************************************************************************)
MAX_CONCURRENCY == 2
maxRetries == 3
baseDelayMs == 1000
errorWindow == 10   \* job.errors.slice(-10)

RECURSIVE Pow2(_)
Pow2(k) == IF k = 0 THEN 1 ELSE 2 * Pow2(k - 1)

Min(a, b) == IF a <= b THEN a ELSE b

(***************************************************************************)
(* Job Store (jobManager.ts).  A JobState is a record; NoJob stands for    *)
(* kv.get returning null.                                                  *)
(***************************************************************************)
NoJob == [absent |-> TRUE]

Statuses == {"pending", "processing", "complete", "failed"}

createJob(totalPrompts) ==
    [jobId |-> "job-1", status |-> "pending", totalPrompts |-> totalPrompts,
     completedImages |-> <<>>, failedCount |-> 0, errors |-> <<>>,
     startTime |-> 0, model |-> "nano-banana", aspectRatio |-> "1:1",
     promptTemplate |-> "template"]

\* Mutant: a status update restarts the job's clock.
updateJobStatus_RestartsClock(j, status) ==
    [j EXCEPT !.status = status, !.startTime = @ + 1]

updateJobStatus(j, status) == [j EXCEPT !.status = status]

addCompletedImages(j, images) ==
    LET j1 == [j EXCEPT !.completedImages = @ \o images,
                        !.status = "processing"]
    IN  IF Len(j1.completedImages) + j1.failedCount >= j1.totalPrompts
        THEN [j1 EXCEPT !.status = "complete"]
        ELSE j1

addJobErrors(j, errors) ==
    LET j1 == [j EXCEPT !.errors = @ \o errors,
                        !.failedCount = @ + Len(errors)]
    IN  IF Len(j1.completedImages) + j1.failedCount >= j1.totalPrompts
        THEN [j1 EXCEPT !.status = "complete"]
        ELSE j1

\* Mutant: the completion test is strict (> instead of >=).
updateJobProgress_StrictThreshold(j, completedImages, errors) ==
    LET j1 == [j EXCEPT !.completedImages = @ \o completedImages,
                        !.errors = @ \o errors,
                        !.failedCount = @ + Len(errors),
                        !.status = "processing"]
    IN  IF Len(j1.completedImages) + j1.failedCount > j1.totalPrompts
        THEN [j1 EXCEPT !.status = "complete"]
        ELSE j1

\* Mutant: the new images replace the stored ones instead of being pushed.
updateJobProgress_Overwrite(j, completedImages, errors) ==
    LET j1 == [j EXCEPT !.completedImages = completedImages,
                        !.errors = @ \o errors,
                        !.failedCount = @ + Len(errors),
                        !.status = "processing"]
    IN  IF Len(j1.completedImages) + j1.failedCount >= j1.totalPrompts
        THEN [j1 EXCEPT !.status = "complete"]
        ELSE j1

\* Mutant: the new entries are put in front of the stored ones (unshift).
updateJobProgress_Prepends(j, completedImages, errors) ==
    LET j1 == [j EXCEPT !.completedImages = completedImages \o @,
                        !.errors = errors \o @,
                        !.failedCount = @ + Len(errors),
                        !.status = "processing"]
    IN  IF Len(j1.completedImages) + j1.failedCount >= j1.totalPrompts
        THEN [j1 EXCEPT !.status = "complete"]
        ELSE j1

updateJobProgress(j, completedImages, errors) ==
    LET j1 == [j EXCEPT !.completedImages = @ \o completedImages,
                        !.errors = @ \o errors,
                        !.failedCount = @ + Len(errors),
                        !.status = "processing"]
    IN  IF Len(j1.completedImages) + j1.failedCount >= j1.totalPrompts
        THEN [j1 EXCEPT !.status = "complete"]
        ELSE j1

SyntheticError == [prompt |-> "Job failed", index |-> -1, src |-> -1]

markJobFailed(j) ==
    [j EXCEPT !.status = "failed", !.errors = Append(@, SyntheticError)]

(***************************************************************************)
(* SpecStore: any sequence of Job Store operations on the record of one    *)
(* job.  createJob runs once per job id (Generate.handle draws a fresh     *)
(* UUID for every submission), so it is the initial state.  Every other    *)
(* operation is getJob, a throw when the record is absent, the change of   *)
(* the record, and kv.put of the whole record.                             *)
(***************************************************************************)
StoreItems == {0, 1}

StoreImage(i) == [index |-> i]
StoreError(i) == [prompt |-> "prompt-text", index |-> i, src |-> i]

SeqsUpTo(S, n) == UNION {[1..k -> S] : k \in 0..n}

ImageLists == {[k \in 1..Len(s) |-> StoreImage(s[k])] : s \in SeqsUpTo(StoreItems, MaxMerge)}
ErrorLists == {[k \in 1..Len(s) |-> StoreError(s[k])] : s \in SeqsUpTo(StoreItems, MaxMerge)}

Terminal(j) == j.status \in {"complete", "failed"}

IdleBatch ==
    /\ hpc = "idle" /\ bpc = "idle" /\ nPrompts = 0 /\ batchSize = 0 /\ bi = 0
    /\ tpc = <<>> /\ attempt = <<>> /\ hist = <<>> /\ genCalls = <<>>
    /\ delays = <<>> /\ calls = <<>> /\ batchImages = <<>> /\ batchErrors = <<>>
    /\ jobLocal = NoJob /\ mergesDone = 0 /\ kvFailed = FALSE

NoResult == [none |-> TRUE]

IdleExpand ==
    /\ template = <<>> /\ variables = <<>>
    /\ validation = NoResult /\ expansion = NoResult /\ httpResponse = NoResult

IdleMerge == sentImages = <<>> /\ sentErrors = <<>>

NoTick == <<>>

\* What a poll has read: nothing yet ("none"), a getJob that threw
\* ("threw"), no record ("absent"), or a record ("read") with its status
\* and counts.
NotSeen(kind) == [kind |-> kind, status |-> "none", completed |-> 0, failed |-> 0]
SeenRecord(j) ==
    [kind |-> "read", status |-> j.status,
     completed |-> Len(j.completedImages), failed |-> j.failedCount]

FeedGhostsInit ==
    /\ carried = <<>> /\ lastTick = NoTick /\ surfaced = 0
    /\ seen = NotSeen("none") /\ completes = 0 /\ dropped = FALSE

IdleFeed ==
    /\ fpc = "idle" /\ lastSentCount = 0 /\ pollCount = 0
    /\ clientGone = FALSE /\ FeedGhostsInit

NoId == <<>>

IdleRead == readResponse = NoResult

IdleIds ==
    /\ idJob = <<>> /\ idIndex = 0 /\ idStamp = 0
    /\ issuedId = NoId /\ decoded = NoResult

IdleClient == fetched = <<>>

IdleRequest == requestedBatchSize = 0

IdleRace == racer = <<>> /\ raceLog = <<>>

IdlePool ==
    /\ ppc = "idle" /\ concurrency = 0 /\ nextIndex = 0
    /\ workers = <<>> /\ results = <<>> /\ settled = <<>>

IdleExtra == IdleClient /\ IdleRequest /\ IdleRace /\ IdlePool

StoreInit ==
    /\ \E n \in 1..MaxPrompts : job = createJob(n)
    /\ lastOp = "createJob" /\ opThrew = FALSE /\ lateMerge = FALSE
    /\ IdleBatch /\ IdleExpand /\ IdleMerge /\ IdleFeed /\ IdleRead /\ IdleIds /\ IdleExtra

\* getJob returned null: the operation throws and nothing is written.
StoreThrow(op) ==
    /\ job = NoJob
    /\ lastOp' = op /\ opThrew' = TRUE
    /\ UNCHANGED <<job, lateMerge>>

StorePut(op, j, late) ==
    /\ job' = j
    /\ lastOp' = op /\ opThrew' = FALSE
    /\ lateMerge' = (lateMerge \/ late)

StoreUpdateJobStatus ==
    /\ \/ StoreThrow("updateJobStatus")
       \/ /\ job # NoJob
          /\ \E s \in Statuses : StorePut("updateJobStatus", updateJobStatus(job, s), FALSE)
    /\ UNCHANGED <<batchVars, expandVars, mergeVars, feedVars,
                   readVars, idVars, extraVars>>

StoreAddCompletedImages ==
    /\ \/ StoreThrow("addCompletedImages")
       \/ /\ job # NoJob
          /\ \E images \in ImageLists :
                /\ Len(job.completedImages) + Len(images) <= MaxStored
                /\ StorePut("addCompletedImages", addCompletedImages(job, images),
                            Terminal(job) /\ images # <<>>)
    /\ UNCHANGED <<batchVars, expandVars, mergeVars, feedVars,
                   readVars, idVars, extraVars>>

StoreAddJobErrors ==
    /\ \/ StoreThrow("addJobErrors")
       \/ /\ job # NoJob
          /\ \E errors \in ErrorLists :
                /\ Len(job.errors) + Len(errors) <= MaxStored
                /\ StorePut("addJobErrors", addJobErrors(job, errors),
                            Terminal(job) /\ errors # <<>>)
    /\ UNCHANGED <<batchVars, expandVars, mergeVars, feedVars,
                   readVars, idVars, extraVars>>

StoreUpdateJobProgress ==
    /\ \/ StoreThrow("updateJobProgress")
       \/ /\ job # NoJob
          /\ \E images \in ImageLists, errors \in ErrorLists :
                /\ Len(job.completedImages) + Len(images) <= MaxStored
                /\ Len(job.errors) + Len(errors) <= MaxStored
                /\ StorePut("updateJobProgress", updateJobProgress(job, images, errors),
                            Terminal(job) /\ (images # <<>> \/ errors # <<>>))
    /\ UNCHANGED <<batchVars, expandVars, mergeVars, feedVars,
                   readVars, idVars, extraVars>>

StoreMarkJobFailed ==
    /\ \/ StoreThrow("markJobFailed")
       \/ /\ job # NoJob
          /\ Len(job.errors) < MaxStored
          /\ StorePut("markJobFailed", markJobFailed(job), FALSE)
    /\ UNCHANGED <<batchVars, expandVars, mergeVars, feedVars,
                   readVars, idVars, extraVars>>

\* deleteJob, or the expiry of the record after JOB_TTL_SECONDS.
StoreDeleteJob ==
    /\ job # NoJob
    /\ job' = NoJob
    /\ lastOp' = "deleteJob" /\ opThrew' = FALSE
    /\ UNCHANGED <<lateMerge, batchVars, expandVars, mergeVars, feedVars,
                   readVars, idVars, extraVars>>

StoreNext ==
    \/ StoreMarkJobFailed
    \/ StoreUpdateJobProgress
    \/ StoreAddCompletedImages
    \/ StoreAddJobErrors
    \/ StoreUpdateJobStatus
    \/ StoreDeleteJob

SpecStore == StoreInit /\ [][StoreNext]_vars

(***************************************************************************)
(* SpecMerge: a caller that, from a freshly created job, only issues       *)
(* updateJobProgress merges, as processBatches does; the record may be     *)
(* deleted or expire in between.  The ghosts sentImages and sentErrors     *)
(* keep what the calls that returned were given.                           *)
(***************************************************************************)
MergeInit ==
    /\ \E n \in 1..MaxTotal : job = createJob(n)
    /\ lastOp = "createJob" /\ opThrew = FALSE /\ lateMerge = FALSE
    /\ IdleBatch /\ IdleExpand /\ IdleMerge /\ IdleFeed /\ IdleRead /\ IdleIds /\ IdleExtra

MergeCall ==
    /\ \/ /\ StoreThrow("updateJobProgress")
          /\ UNCHANGED mergeVars
       \/ /\ job # NoJob
          /\ \E images \in ImageLists, errors \in ErrorLists :
                /\ Len(job.completedImages) + Len(images) <= MaxStored
                /\ Len(job.errors) + Len(errors) <= MaxStored
                /\ StorePut("updateJobProgress", updateJobProgress(job, images, errors),
                            Terminal(job) /\ (images # <<>> \/ errors # <<>>))
                /\ sentImages' = sentImages \o images
                /\ sentErrors' = sentErrors \o errors
    /\ UNCHANGED <<batchVars, expandVars, feedVars, readVars, idVars, extraVars>>

MergeNext == MergeCall \/ StoreDeleteJob

SpecMerge == MergeInit /\ [][MergeNext]_vars

(***************************************************************************)
(* The generation client (openrouter.ts).  A Response is what one          *)
(* generateImage call meets; generateImage classifies it.  A data URI that *)
(* base64ToArrayBuffer cannot decode makes it throw inside the try block,  *)
(* so the catch clause reports it like a transport error.                  *)
(***************************************************************************)
Responses == {"image", "http429", "http5xx", "http4xx", "noMessage", "noImage",
              "badDataUri", "transportError"}

generateImage(response) ==
    CASE response = "image" -> "ok"
      [] response \in {"http429", "http5xx"} -> "retryable"
      [] response = "http4xx" -> "fatal"
      [] response \in {"noMessage", "noImage"} -> "fatal"
      [] response \in {"badDataUri", "transportError"} -> "retryable"

\* Mutant: a success of the final attempt is not returned as a success.
generateImageWithRetry_DropsLastSuccess(a, result) ==
    IF result = "ok" /\ a < maxRetries - 1 THEN "success"
    ELSE IF result = "fatal" THEN "failure"
    ELSE IF a < maxRetries - 1 THEN "sleep"
    ELSE "failure"

\* Mutant: the retryable flag is ignored, every failure is retried.
generateImageWithRetry_RetriesFatal(a, result) ==
    IF result = "ok" THEN "success"
    ELSE IF a < maxRetries - 1 THEN "sleep"
    ELSE "failure"

\* Mutant: the loop also waits, and tries once more, after attempt
\* maxRetries - 1.
generateImageWithRetry_WaitsAfterLast(a, result) ==
    IF result = "ok" THEN "success"
    ELSE IF result # "retryable" THEN "failure"
    ELSE IF a < maxRetries THEN "sleep"
    ELSE "failure"

\* What generateImageWithRetry does with the result of attempt number a
\* (0-based): return it as a success, return it as the failure, or sleep
\* and try again.
generateImageWithRetry(a, result) ==
    IF result = "ok" THEN "success"
    ELSE IF result # "retryable" THEN "failure"
    ELSE IF a < maxRetries - 1 THEN "sleep"
    ELSE "failure"

backoffDelay(a) == baseDelayMs * Pow2(a)

(***************************************************************************)
(* The batch processor (processBatches) and the handler that starts it.    *)
(***************************************************************************)
Prompts == 0..(nPrompts - 1)

PromptList == [k \in 1..nPrompts |-> k - 1]

RECURSIVE chunkFrom(_, _, _)
chunkFrom(array, size, i) ==
    IF i < Len(array)
    THEN <<SubSeq(array, i + 1, Min(i + size, Len(array)))>> \o chunkFrom(array, size, i + size)
    ELSE <<>>

\* Mutant: the slices are one element longer than the chunk size.
chunk_OneTooLong(array, size) == chunkFrom(array, size + 1, 0)

chunk(array, size) == chunkFrom(array, size, 0)

batches == chunk(PromptList, batchSize)

Range(f) == {f[k] : k \in DOMAIN f}

\* Mutant: a processPrompt call still awaiting storeImage counts as settled.
Settled_StoreNotAwaited(p) == tpc[p] \in {"ok", "failed", "threw", "store"}

Settled(p) == tpc[p] \in {"ok", "failed", "threw"}

\* Mutant: a rejected promise is taken for a stored image.
collectImages_TakesRejected(batch) ==
    LET Ok(p) == tpc[p] \in {"ok", "threw"}
        done == SelectSeq(batch, Ok)
    IN  [k \in 1..Len(done) |-> [index |-> done[k]]]

\* The loop over the settled results of one batch: its completed images ...
collectImages(batch) ==
    LET Ok(p) == tpc[p] = "ok"
        done == SelectSeq(batch, Ok)
    IN  [k \in 1..Len(done) |-> [index |-> done[k]]]

\* Mutant: the branch for a rejected promise is missing.
collectErrors_DropRejected(batch) ==
    LET Bad(p) == tpc[p] = "failed"
        bad == SelectSeq(batch, Bad)
    IN  [k \in 1..Len(bad) |->
            [prompt |-> "prompt-text", index |-> bad[k], src |-> bad[k]]]

\* ... and its errors: a failed BatchResult keeps its prompt and index, a
\* rejected promise is recorded as prompt "Unknown", index -1.
collectErrors(batch) ==
    LET Bad(p) == tpc[p] \in {"failed", "threw"}
        bad == SelectSeq(batch, Bad)
    IN  [k \in 1..Len(bad) |->
            IF tpc[bad[k]] = "failed"
            THEN [prompt |-> "prompt-text", index |-> bad[k], src |-> bad[k]]
            ELSE [prompt |-> "Unknown", index |-> -1, src |-> bad[k]]]

Init ==
    /\ nPrompts \in 1..MaxPrompts
    /\ batchSize \in 1..MaxBatch
    /\ job = NoJob /\ lastOp = "none" /\ opThrew = FALSE /\ lateMerge = FALSE
    /\ hpc = "createJob" /\ bpc = "notStarted" /\ bi = 0
    /\ tpc = [p \in Prompts |-> "idle"]
    /\ attempt = [p \in Prompts |-> 0]
    /\ hist = [p \in Prompts |-> <<>>]
    /\ genCalls = [p \in Prompts |-> 0]
    /\ delays = [p \in Prompts |-> <<>>]
    /\ calls = [p \in Prompts |-> 0]
    /\ batchImages = <<>> /\ batchErrors = <<>>
    /\ jobLocal = NoJob /\ mergesDone = 0 /\ kvFailed = FALSE
    /\ IdleExpand /\ IdleMerge /\ IdleFeed /\ IdleRead /\ IdleIds /\ IdleExtra

\* Mutant: the loop does not wait for a batch and its merge: the prompts of
\* the batch after b are handed to processPrompt together with those of b.
Launch_WithNextChunk(b) ==
    LET batch == Range(batches[b])
                    \cup (IF b < Len(batches) THEN Range(batches[b + 1]) ELSE {}) IN
    /\ bi' = b
    /\ bpc' = "awaitBatch"
    /\ tpc' = [p \in Prompts |-> IF p \in batch THEN "fetch" ELSE tpc[p]]
    /\ calls' = [p \in Prompts |-> IF p \in batch THEN calls[p] + 1 ELSE calls[p]]
    /\ genCalls' = [p \in Prompts |-> IF p \in batch THEN genCalls[p] + 1 ELSE genCalls[p]]
    /\ attempt' = [p \in Prompts |-> IF p \in batch THEN 0 ELSE attempt[p]]

\* batch.map(processPrompt): every prompt of batch b is handed to
\* processPrompt, and each call runs synchronously up to the fetch of its
\* first generateImage attempt.
Launch(b) ==
    LET batch == Range(batches[b]) IN
    /\ bi' = b
    /\ bpc' = "awaitBatch"
    /\ tpc' = [p \in Prompts |-> IF p \in batch THEN "fetch" ELSE tpc[p]]
    /\ calls' = [p \in Prompts |-> IF p \in batch THEN calls[p] + 1 ELSE calls[p]]
    /\ genCalls' = [p \in Prompts |-> IF p \in batch THEN genCalls[p] + 1 ELSE genCalls[p]]
    /\ attempt' = [p \in Prompts |-> IF p \in batch THEN 0 ELSE attempt[p]]

\* Mutant: createJob is not awaited, the handler goes on while the write
\* is in flight.
HandleCreateJob_NotAwaited ==
    /\ hpc = "createJob"
    /\ hpc' = "startRun"
    /\ UNCHANGED <<job, lastOp>>
    /\ UNCHANGED <<opThrew, lateMerge, bpc, nPrompts, batchSize, bi, tpc, attempt,
                   hist, genCalls, delays, calls, batchImages, batchErrors,
                   jobLocal, mergesDone, kvFailed, expandVars, mergeVars, feedVars,
                   readVars, idVars, extraVars>>

\* Generate.handle: await createJob(...).  A kv.put that throws ends the
\* handler before any run is started.
HandleCreateJob ==
    /\ hpc = "createJob"
    /\ \/ /\ job' = createJob(nPrompts)
          /\ lastOp' = "createJob"
          /\ hpc' = "startRun"
       \/ /\ hpc' = "threw"
          /\ UNCHANGED <<job, lastOp>>
    /\ UNCHANGED <<opThrew, lateMerge, bpc, nPrompts, batchSize, bi, tpc, attempt,
                   hist, genCalls, delays, calls, batchImages, batchErrors,
                   jobLocal, mergesDone, kvFailed, expandVars, mergeVars, feedVars,
                   readVars, idVars, extraVars>>

\* Generate.handle: waitUntil(processBatches(...)) and the response.  The
\* call of processBatches chunks the prompts and launches the first batch
\* before it first suspends.
HandleStartRun ==
    /\ hpc = "startRun"
    /\ IF batchSize >= 1
       THEN /\ hpc' = "responded"
            /\ Launch(1)
            /\ httpResponse' = [status |-> 200, success |-> TRUE, jobId |-> "job-1",
                                totalPrompts |-> nPrompts]
       ELSE \* chunk's loop for (i = 0; i < array.length; i += size) never ends
            /\ hpc' = "blocked" /\ bpc' = "chunking"
            /\ UNCHANGED <<bi, tpc, calls, genCalls, attempt, httpResponse>>
    /\ UNCHANGED <<storeVars, nPrompts, batchSize, hist, delays, batchImages,
                   batchErrors, jobLocal, mergesDone, kvFailed, template,
                   variables, validation, expansion, mergeVars, feedVars,
                   readVars, idVars, extraVars>>

\* One generateImage call of prompt p returns; generateImageWithRetry
\* decides, and on a success processPrompt goes on to storeImage.
FetchReturn(p) ==
    /\ tpc[p] = "fetch"
    /\ \E response \in Responses :
          LET result == generateImage(response)
              next == generateImageWithRetry(attempt[p], result)
          IN  /\ hist' = [hist EXCEPT ![p] = Append(@, result)]
              /\ tpc' = [tpc EXCEPT ![p] =
                            CASE next = "success" -> "store"
                              [] next = "failure" -> "failed"
                              [] next = "sleep" -> "sleep"]
              /\ delays' = IF next = "sleep"
                           THEN [delays EXCEPT ![p] = Append(@, backoffDelay(attempt[p]))]
                           ELSE delays
    /\ UNCHANGED <<storeVars, hpc, bpc, nPrompts, batchSize, bi, attempt, genCalls,
                   calls, batchImages, batchErrors, jobLocal, mergesDone, kvFailed,
                   expandVars, mergeVars, feedVars,
                   readVars, idVars, extraVars>>

\* The backoff timer of prompt p fires: the loop makes its next attempt.
SleepDone(p) ==
    /\ tpc[p] = "sleep"
    /\ attempt' = [attempt EXCEPT ![p] = @ + 1]
    /\ genCalls' = [genCalls EXCEPT ![p] = @ + 1]
    /\ tpc' = [tpc EXCEPT ![p] = "fetch"]
    /\ UNCHANGED <<storeVars, hpc, bpc, nPrompts, batchSize, bi, hist, delays, calls,
                   batchImages, batchErrors, jobLocal, mergesDone, kvFailed,
                   expandVars, mergeVars, feedVars,
                   readVars, idVars, extraVars>>

\* storeImage of prompt p returns the key, or bucket.put throws and the
\* promise of processPrompt is rejected.
StoreReturn(p) ==
    /\ tpc[p] = "store"
    /\ \/ tpc' = [tpc EXCEPT ![p] = "ok"]
       \/ tpc' = [tpc EXCEPT ![p] = "threw"]
    /\ UNCHANGED <<storeVars, hpc, bpc, nPrompts, batchSize, bi, attempt, hist,
                   genCalls, delays, calls, batchImages, batchErrors, jobLocal,
                   mergesDone, kvFailed, expandVars, mergeVars, feedVars,
                   readVars, idVars, extraVars>>

\* Mutant: the loop ends after its first iteration.
Advance_StopsAfterFirstBatch ==
    /\ bpc' = "done"
    /\ UNCHANGED <<bi, tpc, calls, genCalls, attempt>>

\* The loop goes on after a batch: the next batch is launched, or the run
\* returns.
Advance ==
    IF bi < Len(batches)
    THEN Launch(bi + 1)
    ELSE /\ bpc' = "done"
         /\ UNCHANGED <<bi, tpc, calls, genCalls, attempt>>

\* Promise.allSettled resolves: the results are sorted into completedImages
\* and errors and updateJobProgress is called (its getJob is issued).
Collect ==
    /\ bpc = "awaitBatch"
    /\ \A p \in Range(batches[bi]) : Settled(p)
    /\ batchImages' = collectImages(batches[bi])
    /\ batchErrors' = collectErrors(batches[bi])
    /\ IF batchImages' # <<>> \/ batchErrors' # <<>>
       THEN /\ bpc' = "mergeGet"
            /\ UNCHANGED <<bi, tpc, calls, genCalls, attempt>>
       ELSE Advance
    /\ UNCHANGED <<storeVars, hpc, nPrompts, batchSize, hist, delays, jobLocal,
                   mergesDone, kvFailed, expandVars, mergeVars, feedVars,
                   readVars, idVars, extraVars>>

\* updateJobProgress: getJob returns.  KV unreachable or no record: the
\* call throws and processBatches rejects; nothing catches it.
MergeGet ==
    /\ bpc = "mergeGet"
    /\ \/ /\ job # NoJob
          /\ jobLocal' = updateJobProgress(job, batchImages, batchErrors)
          /\ bpc' = "mergePut"
          /\ UNCHANGED kvFailed
       \/ /\ job = NoJob
          /\ bpc' = "rejected"
          /\ kvFailed' = TRUE
          /\ UNCHANGED jobLocal
       \/ /\ bpc' = "rejected"
          /\ kvFailed' = TRUE
          /\ UNCHANGED jobLocal
    /\ UNCHANGED <<storeVars, hpc, nPrompts, batchSize, bi, tpc, attempt, hist,
                   genCalls, delays, calls, batchImages, batchErrors, mergesDone,
                   expandVars, mergeVars, feedVars,
                   readVars, idVars, extraVars>>

\* updateJobProgress: kv.put of the whole record returns, and the loop
\* goes on; or it throws.
MergePut ==
    /\ bpc = "mergePut"
    /\ \/ /\ job' = jobLocal
          /\ lastOp' = "updateJobProgress"
          /\ mergesDone' = mergesDone + 1
          /\ Advance
          /\ UNCHANGED kvFailed
       \/ /\ bpc' = "rejected"
          /\ kvFailed' = TRUE
          /\ UNCHANGED <<job, lastOp, mergesDone, bi, tpc, calls, genCalls, attempt>>
    /\ UNCHANGED <<opThrew, lateMerge, hpc, nPrompts, batchSize, hist, delays,
                   batchImages, batchErrors, jobLocal, expandVars, mergeVars, feedVars,
                   readVars, idVars, extraVars>>

\* The record expires (JOB_TTL_SECONDS) or is evicted from KV.
EvictJob ==
    /\ job # NoJob
    /\ job' = NoJob
    /\ UNCHANGED <<lastOp, opThrew, lateMerge, batchVars, expandVars, mergeVars, feedVars,
                   readVars, idVars, extraVars>>

RunNext ==
    \/ HandleCreateJob
    \/ HandleStartRun
    \/ \E p \in Prompts : FetchReturn(p)
    \/ \E p \in Prompts : SleepDone(p)
    \/ \E p \in Prompts : StoreReturn(p)
    \/ Collect
    \/ MergeGet
    \/ MergePut

Next == RunNext \/ EvictJob

Spec == Init /\ [][Next]_vars

\* The run while the record stays in KV (no expiry or eviction), under the
\* fairness of the event loop: a continuation whose awaited call has
\* returned is eventually run.
LiveSpec == Init /\ [][RunNext]_vars /\ WF_vars(RunNext)

(***************************************************************************)
(* The template expander (templateParser.ts, lines 1-124).  A string is a  *)
(* sequence of tokens: a placeholder token <NAME>, a piece of literal      *)
(* text, or the two characters "$c", which String.prototype.replace reads  *)
(* as a replacement pattern when they stand in its replacement string.     *)
(***************************************************************************)
Ph(name) == [kind |-> "ph", name |-> name]
Lit(text) == [kind |-> "lit", name |-> text]
Dollar(c) == [kind |-> "dollar", name |-> c]

Names == {"X", "Y"}
Tokens == {Ph(n) : n \in Names} \cup {Lit("a")}
\* Candidate values are any strings (z.array(z.string())): plain text, and
\* among the candidates of X text that reads as the placeholder token <Y>
\* and text that holds "$&".
Values(n) ==
    IF n = "X" THEN {<<Lit("v")>>, <<Ph("Y")>>, <<Dollar("&")>>}
    ELSE {<<Lit("v")>>, <<Lit("w")>>}

Templates == SeqsUpTo(Tokens, MaxTplLen)
ValueLists(n) == SeqsUpTo(Values(n), MaxVals)
Assignments ==
    UNION {{f \in [D -> UNION {ValueLists(n) : n \in Names}] :
                \A n \in D : f[n] \in ValueLists(n)} : D \in SUBSET Names}

\* Assignments of plain text only.
PlainLists == SeqsUpTo({<<Lit("v")>>}, MaxVals)
PlainAssignments == UNION {[D -> PlainLists] : D \in SUBSET Names}

Contains(seq, x) == \E k \in DOMAIN seq : seq[k] = x

\* Mutant: the matches are not de-duplicated.
RECURSIVE extractVariables_NoDedupe(_)
extractVariables_NoDedupe(tpl) ==
    IF tpl = <<>> THEN <<>>
    ELSE LET t == tpl[Len(tpl)]
             before == extractVariables_NoDedupe(SubSeq(tpl, 1, Len(tpl) - 1))
         IN  IF t.kind = "ph" THEN Append(before, t.name) ELSE before

\* The names of the placeholder tokens, each once, in order of first
\* appearance (matchAll, then the insertion order of the Set).
RECURSIVE extractVariables(_)
extractVariables(tpl) ==
    IF tpl = <<>> THEN <<>>
    ELSE LET t == tpl[Len(tpl)]
             before == extractVariables(SubSeq(tpl, 1, Len(tpl) - 1))
         IN  IF t.kind = "ph" /\ ~Contains(before, t.name)
             THEN Append(before, t.name)
             ELSE before

\* Mutant: a present placeholder with an empty candidate list is let through.
validateVariables_NoEmptyCheck(tpl, vs) ==
    LET required == extractVariables(tpl)
        Missing(n) == n \notin DOMAIN vs
        missing == SelectSeq(required, Missing)
    IN  [valid |-> (Len(missing) = 0), missing |-> missing, empty |-> <<>>]

validateVariables(tpl, vs) ==
    LET required == extractVariables(tpl)
        Missing(n) == n \notin DOMAIN vs
        Empty(n) == n \in DOMAIN vs /\ Len(vs[n]) = 0
        missing == SelectSeq(required, Missing)
        empty == SelectSeq(required, Empty)
    IN  [valid |-> (Len(missing) = 0 /\ Len(empty) = 0),
         missing |-> missing, empty |-> empty]

\* Mutant: the loops are nested the other way round, arr outside:
\* arr.flatMap((item) => acc.map((combo) => [...combo, item])).
flatMapAppend_ItemOutside(acc, arr) ==
    [k \in 1..(Len(arr) * Len(acc)) |->
        Append(acc[((k - 1) % Len(acc)) + 1], arr[((k - 1) \div Len(acc)) + 1])]

\* acc.flatMap((combo) => arr.map((item) => [...combo, item]))
RECURSIVE flatMapAppend(_, _)
flatMapAppend(acc, arr) ==
    IF acc = <<>> THEN <<>>
    ELSE [j \in 1..Len(arr) |-> Append(Head(acc), arr[j])]
            \o flatMapAppend(Tail(acc), arr)

RECURSIVE reduceProduct(_, _)
reduceProduct(acc, arrays) ==
    IF arrays = <<>> THEN acc
    ELSE reduceProduct(flatMapAppend(acc, Head(arrays)), Tail(arrays))

cartesianProduct(arrays) ==
    IF Len(arrays) = 0 THEN << <<>> >> ELSE reduceProduct(<< <<>> >>, arrays)

\* The replacement text String.prototype.replace builds from a replacement
\* string for one match: "$&" stands for the matched text, "$$" for "$",
\* everything else for itself (the pattern has no capture group).
RECURSIVE GetSubstitution(_, _)
GetSubstitution(value, matched) ==
    IF value = <<>> THEN <<>>
    ELSE (CASE Head(value) = Dollar("&") -> matched
            [] Head(value) = Dollar("$") -> <<Lit("$")>>
            [] OTHER -> <<Head(value)>>)
            \o GetSubstitution(Tail(value), matched)

\* prompt.replace(new RegExp("<name>", "g"), value): every token <name> of
\* the string is replaced by the substitution of value.
RECURSIVE replaceAll(_, _, _)
replaceAll(str, name, value) ==
    IF str = <<>> THEN <<>>
    ELSE (IF Head(str) = Ph(name)
          THEN GetSubstitution(value, <<Ph(name)>>)
          ELSE <<Head(str)>>)
            \o replaceAll(Tail(str), name, value)

\* variableNames.forEach: the placeholders are substituted one after the
\* other, each on the result of the one before.
RECURSIVE substituteFrom(_, _, _, _)
substituteFrom(prompt, variableNames, combo, i) ==
    IF i > Len(variableNames) THEN prompt
    ELSE substituteFrom(replaceAll(prompt, variableNames[i], combo[i]),
                        variableNames, combo, i + 1)

expandTemplate(tpl, vs) ==
    LET variableNames == extractVariables(tpl) IN
    IF Len(variableNames) = 0
    THEN [prompts |-> <<[prompt |-> tpl, variableValues |-> <<>>, index |-> 0]>>,
          variableNames |-> <<>>,
          totalCombinations |-> 1]
    ELSE LET Used(n) == n \in DOMAIN vs /\ Len(vs[n]) > 0
             valueArrays == [i \in 1..Len(variableNames) |->
                                IF Used(variableNames[i]) THEN vs[variableNames[i]]
                                ELSE << <<>> >>]
             combinations == cartesianProduct(valueArrays)
             prompts == [c \in 1..Len(combinations) |->
                            [prompt |-> substituteFrom(tpl, variableNames, combinations[c], 1),
                             variableValues |->
                                [n \in Range(variableNames) |->
                                    LET i == CHOOSE i \in 1..Len(variableNames) :
                                                 variableNames[i] = n
                                    IN  combinations[c][i]],
                             index |-> c - 1]]
         IN  [prompts |-> prompts,
              variableNames |-> variableNames,
              totalCombinations |-> Len(prompts)]

(***************************************************************************)
(* SpecExpand: a submitted template and assignment, validated and, when    *)
(* valid, expanded, as Generate.handle does.  SpecHandle: the whole of     *)
(* Generate.handle: validation, the 400 response, the expansion, createJob *)
(* and the start of the run.                                               *)
(***************************************************************************)
Submitted(assignments) ==
    /\ template \in Templates
    /\ variables \in assignments
    /\ validation = NoResult /\ expansion = NoResult /\ httpResponse = NoResult
    /\ job = NoJob /\ lastOp = "none" /\ opThrew = FALSE /\ lateMerge = FALSE
    /\ IdleBatch /\ IdleMerge /\ IdleFeed /\ IdleRead /\ IdleIds /\ IdleExtra

ExpandInit == Submitted(Assignments)

HandleInit == Submitted(PlainAssignments)

\* Mutant: the handler looks at the missing list only.
Accepted_IgnoresEmpty(v) == Len(v.missing) = 0

\* if (!validation.valid) { ... return 400 }
Accepted(v) == v.valid

\* The error text of the 400 response: one part per non-empty list, each
\* naming the variables of the list (join(", ")), the parts joined by "; ".
errorMessages(v) ==
    (IF Len(v.missing) > 0
     THEN <<[label |-> "Missing variables", names |-> v.missing]>> ELSE <<>>)
    \o (IF Len(v.empty) > 0
        THEN <<[label |-> "Empty variables", names |-> v.empty]>> ELSE <<>>)

Validate ==
    /\ validation = NoResult
    /\ validation' = validateVariables(template, variables)
    /\ UNCHANGED <<template, variables, expansion, httpResponse, storeVars, batchVars,
                   mergeVars, feedVars,
                   readVars, idVars, extraVars>>

\* The handler returns the 400 response; nothing else runs.
Reject ==
    /\ validation # NoResult /\ ~Accepted(validation)
    /\ httpResponse = NoResult
    /\ httpResponse' = [status |-> 400, success |-> FALSE,
                        error |-> errorMessages(validation)]
    /\ UNCHANGED <<template, variables, validation, expansion, storeVars, batchVars,
                   mergeVars, feedVars,
                   readVars, idVars, extraVars>>

Expand ==
    /\ validation # NoResult /\ Accepted(validation)
    /\ expansion = NoResult
    /\ expansion' = expandTemplate(template, variables)
    /\ UNCHANGED <<template, variables, validation, httpResponse, storeVars, batchVars,
                   mergeVars, feedVars,
                   readVars, idVars, extraVars>>

\* parseInt(env.MAX_BATCH_SIZE || "20", 10), scaled to the largest batch
\* size of the model.
maxBatchSize == MaxBatch

\* The values the request schema lets through as batchSize: Num without a
\* minimum (types.ts, line 53).
RequestedBatchSizes == -1..(MaxBatch + 1)

\* Math.min(batchSize, maxBatchSize)
effectiveBatchSize(requested) == Min(requested, maxBatchSize)

\* totalPrompts = expansion.totalCombinations and the effective batch size:
\* the arguments of createJob and processBatches are fixed.
Submit ==
    /\ expansion # NoResult /\ hpc = "idle"
    /\ nPrompts' = expansion.totalCombinations
    /\ \E requested \in RequestedBatchSizes :
          /\ requestedBatchSize' = requested
          /\ batchSize' = effectiveBatchSize(requested)
    /\ hpc' = "createJob" /\ bpc' = "notStarted"
    /\ tpc' = [p \in 0..(nPrompts' - 1) |-> "idle"]
    /\ attempt' = [p \in 0..(nPrompts' - 1) |-> 0]
    /\ hist' = [p \in 0..(nPrompts' - 1) |-> <<>>]
    /\ genCalls' = [p \in 0..(nPrompts' - 1) |-> 0]
    /\ delays' = [p \in 0..(nPrompts' - 1) |-> <<>>]
    /\ calls' = [p \in 0..(nPrompts' - 1) |-> 0]
    /\ UNCHANGED <<storeVars, bi, batchImages, batchErrors, jobLocal, mergesDone,
                   kvFailed, expandVars, mergeVars, feedVars,
                   readVars, idVars, clientVars, raceVars, poolVars>>

ExpandNext == Validate \/ Reject \/ Expand

HandleNext ==
    \/ Validate
    \/ Reject
    \/ Expand
    \/ Submit
    \/ HandleCreateJob
    \/ HandleStartRun

SpecHandle == HandleInit /\ [][HandleNext]_vars

SpecExpand == ExpandInit /\ [][ExpandNext]_vars

(***************************************************************************)
(* SpecFeed: one GenerateStatus live feed (part_000, lines 40-147) beside  *)
(* the writers of the Job Record.  The record is created, then merges      *)
(* arrive, it may be marked failed, deleted or expire, while the handler   *)
(* makes its first read and the monitor loop polls.  One poll tick is one  *)
(* step: everything the tick emits is computed from the record its getJob  *)
(* returned.  An event is a record; lastTick is the sequence of events of  *)
(* the last tick, in emission order.                                       *)
(***************************************************************************)
Max(a, b) == IF a >= b THEN a ELSE b

\* seq.slice(from), from counted from 0.
sliceFrom(seq, from) == SubSeq(seq, from + 1, Len(seq))

\* seq.slice(-n)
sliceLast(seq, n) == sliceFrom(seq, Max(0, Len(seq) - n))

\* Mutant: lastSentCount is not moved on after a progress event.
nextSentCount_Stale(count, j) == count

\* lastSentCount = job.completedImages.length
nextSentCount(count, j) == Len(j.completedImages)

\* Mutant: one progress event per new image.
progressEvents_PerImage(j, count) ==
    [k \in 1..(Len(j.completedImages) - count) |->
        [event |-> "progress",
         completed |-> Len(j.completedImages),
         total |-> j.totalPrompts,
         images |-> <<j.completedImages[count + k]>>]]

\* The progress event of a tick, if the record has more images than sent.
progressEvents(j, count) ==
    IF Len(j.completedImages) > count
    THEN <<[event |-> "progress",
            completed |-> Len(j.completedImages),
            total |-> j.totalPrompts,
            images |-> sliceFrom(j.completedImages, count)]>>
    ELSE <<>>

\* The error events of a tick: one per entry of job.errors.slice(-10).  The
\* ghost field at is the position of the entry in job.errors.
errorEvents(j) ==
    LET latest == sliceLast(j.errors, errorWindow)
        skipped == Len(j.errors) - Len(latest)
    IN  [k \in 1..Len(latest) |->
            [event |-> "error", prompt |-> latest[k].prompt,
             index |-> latest[k].index, retryable |-> FALSE, at |-> skipped + k]]

\* Mutant: only the status complete ends the feed.
completeEvents_OnlyComplete(j) ==
    IF j.status = "complete"
    THEN <<[event |-> "complete",
            totalGenerated |-> Len(j.completedImages),
            totalFailed |-> j.failedCount]>>
    ELSE <<>>

\* The complete event of a tick that reads a terminal status.
completeEvents(j) ==
    IF j.status \in {"complete", "failed"}
    THEN <<[event |-> "complete",
            totalGenerated |-> Len(j.completedImages),
            totalFailed |-> j.failedCount]>>
    ELSE <<>>

\* Mutant: a missing record is reported as a completion.
JobNotFound_AsComplete == [event |-> "complete", totalGenerated |-> 0, totalFailed |-> 0]

JobNotFound == [event |-> "error", error |-> "Job not found"]

\* The highest position in job.errors among the error events of a tick.
HighestError(events) ==
    LET at == {events[k].at : k \in {i \in DOMAIN events : "at" \in DOMAIN events[i]}}
    IN  IF at = {} THEN 0 ELSE CHOOSE m \in at : \A n \in at : n <= m

FeedInit ==
    /\ \E n \in 1..MaxPrompts : job = createJob(n)
    /\ lastOp = "createJob" /\ opThrew = FALSE /\ lateMerge = FALSE
    /\ fpc = "request" /\ lastSentCount = 0 /\ pollCount = 0
    /\ clientGone = FALSE /\ FeedGhostsInit
    /\ IdleBatch /\ IdleExpand /\ IdleMerge /\ IdleRead /\ IdleIds /\ IdleExtra

\* A merge of the run for this job arrives: the next a images and e errors.
FeedWriterMerge ==
    /\ job # NoJob
    /\ \E a \in 0..MaxBatch, e \in 0..MaxBatch :
          LET done == Len(job.completedImages) + job.failedCount
              images == [k \in 1..a |-> [index |-> done + k - 1]]
              errors == [k \in 1..e |->
                            [prompt |-> "prompt-text", index |-> done + a + k - 1,
                             src |-> done + a + k - 1]]
          IN  /\ 1 <= a + e /\ a + e <= MaxBatch
              /\ done + a + e <= job.totalPrompts
              /\ Len(job.errors) + e <= MaxStored
              /\ StorePut("updateJobProgress", updateJobProgress(job, images, errors), FALSE)
    /\ UNCHANGED <<batchVars, expandVars, mergeVars, feedVars,
                   readVars, idVars, extraVars>>

\* The handler's first read: 404 without a stream, or the stream is opened
\* and the monitor loop is started.
FeedOpen ==
    /\ fpc = "request"
    /\ fpc' = IF job = NoJob THEN "notFound" ELSE "polling"
    /\ UNCHANGED <<storeVars, batchVars, expandVars, mergeVars, readVars, idVars, extraVars,
                   lastSentCount,
                   pollCount, carried, lastTick, surfaced, seen, completes,
                   clientGone, dropped>>

\* Mutant: sendEvent has no try/catch, a rejected write throws into the
\* loop body.
sendEvent_Rethrows(gone) == IF gone THEN "threw" ELSE "written"

\* sendEvent: await writer.write(...) inside try/catch; a rejected write is
\* swallowed.
sendEvent(gone) == IF gone THEN "dropped" ELSE "written"

\* Mutant: the catch clause waits without counting the poll.
FeedCatch_NotCounted ==
    /\ lastTick' = NoTick
    /\ UNCHANGED <<fpc, pollCount, lastSentCount, carried, completes>>

\* The catch clause of the loop body: the poll is counted, nothing else.
FeedCatch ==
    /\ pollCount' = pollCount + 1
    /\ lastTick' = NoTick
    /\ UNCHANGED <<fpc, lastSentCount, carried, completes>>

\* One iteration of while (pollCount < maxPolls).
FeedTick ==
    /\ fpc = "polling" /\ pollCount < maxPolls
    /\ surfaced' = Max(surfaced, HighestError(lastTick))
    /\ \/ \* getJob throws: the catch clause counts the poll and waits
          /\ FeedCatch
          /\ seen' = NotSeen("threw") /\ dropped' = FALSE
       \/ \* no record: one error event, break
          /\ job = NoJob
          /\ seen' = NotSeen("absent")
          /\ IF sendEvent(clientGone) = "threw"
             THEN FeedCatch /\ dropped' = TRUE
             ELSE /\ lastTick' = <<JobNotFound>>
                  /\ dropped' = (sendEvent(clientGone) = "dropped")
                  /\ fpc' = "closed"
                  /\ UNCHANGED <<pollCount, lastSentCount, carried, completes>>
       \/ /\ job # NoJob
          /\ seen' = SeenRecord(job)
          /\ LET progress == progressEvents(job, lastSentCount)
                 terminal == completeEvents(job)
                 events == progress \o errorEvents(job) \o terminal
             IN  IF events # <<>> /\ sendEvent(clientGone) = "threw"
                 THEN FeedCatch /\ dropped' = TRUE
                 ELSE /\ lastTick' = events
                      /\ dropped' = (events # <<>> /\ sendEvent(clientGone) = "dropped")
                      /\ lastSentCount' = IF progress # <<>>
                                          THEN nextSentCount(lastSentCount, job)
                                          ELSE lastSentCount
                      /\ carried' = IF progress # <<>>
                                    THEN carried \o progress[1].images
                                    ELSE carried
                      /\ completes' = completes + Len(terminal)
                      /\ IF terminal # <<>>
                         THEN fpc' = "closed" /\ UNCHANGED pollCount
                         ELSE pollCount' = pollCount + 1 /\ UNCHANGED fpc
    /\ UNCHANGED <<storeVars, batchVars, expandVars, mergeVars, readVars, idVars, extraVars,
                   clientGone>>

\* The loop ends at the cap and the stream is closed.
FeedCap ==
    /\ fpc = "polling" /\ pollCount >= maxPolls
    /\ fpc' = "closed"
    /\ UNCHANGED <<storeVars, batchVars, expandVars, mergeVars, readVars, idVars, extraVars,
                   lastSentCount,
                   pollCount, carried, lastTick, surfaced, seen, completes,
                   clientGone, dropped>>

\* The client goes away while the stream is open: from now on every
\* writer.write rejects.
FeedClientGone ==
    /\ fpc = "polling" /\ ~clientGone
    /\ clientGone' = TRUE
    /\ UNCHANGED <<storeVars, batchVars, expandVars, mergeVars, readVars, idVars, extraVars,
                   fpc, lastSentCount,
                   pollCount, carried, lastTick, surfaced, seen, completes, dropped>>

\* The steps of the handler and of its monitor loop.
FeedStep == FeedOpen \/ FeedTick \/ FeedCap

FeedNext ==
    \/ FeedOpen
    \/ FeedTick
    \/ FeedCap
    \/ FeedClientGone
    \/ FeedWriterMerge
    \/ StoreMarkJobFailed
    \/ StoreDeleteJob

SpecFeed == FeedInit /\ [][FeedNext]_vars

\* The feed under the fairness of the event loop: the handler and the
\* monitor loop go on whenever they can (every awaited getJob, write and
\* timer settles).
LiveFeed == FeedInit /\ [][FeedNext]_vars /\ WF_vars(FeedStep)

(***************************************************************************)
(* Claims about the Job Store, checked under SpecStore.                    *)
(***************************************************************************)
Accounted(j) == Len(j.completedImages) + j.failedCount

\* C2: for a job created by createJob with totalPrompts >= 1, whenever the
\* last operation on the stored record is createJob or an updateJobProgress
\* merge (so after any sequence of merges), status = complete if and only if
\* completedImages.length + failedCount >= totalPrompts.
C2_CompleteIffAllAccounted ==
    (job # NoJob /\ lastOp \in {"createJob", "updateJobProgress"})
        => (job.status = "complete" <=> Accounted(job) >= job.totalPrompts)

\* C2 witness: a merge has just brought a job with images and failures
\* exactly to its total, and the record is complete.
C2_Witness ==
    /\ job # NoJob /\ lastOp = "updateJobProgress"
    /\ job.status = "complete"
    /\ Accounted(job) = job.totalPrompts
    /\ job.completedImages # <<>> /\ job.failedCount > 0

StatusRank(s) ==
    CASE s = "pending" -> 0 [] s = "processing" -> 1 [] s = "complete" -> 2
      [] OTHER -> 3

\* The status steps the data model allows: forward along
\* pending -> processing -> complete, to failed from anywhere, and nowhere
\* from failed.
StatusStepAllowed(s, t) ==
    IF s = "failed" THEN t = "failed"
    ELSE t = "failed" \/ StatusRank(t) >= StatusRank(s)

\* C7 (as claimed): the stored status is monotonic along
\* pending -> processing -> complete and failed is a dead end: no Job Store
\* operation changes a failed status to anything else.
C7_StatusMonotonicFailedDeadEnd ==
    [][(job # NoJob /\ job' # NoJob) => StatusStepAllowed(job.status, job'.status)]_vars

\* C9: completedImages.length and failedCount of the stored record never
\* decrease from one Job Store operation to the next, whatever the status.
C9_CountsNeverDecrease ==
    [][(job # NoJob /\ job' # NoJob)
          => /\ Len(job'.completedImages) >= Len(job.completedImages)
             /\ job'.failedCount >= job.failedCount]_vars

\* C9 witness: a merge has added entries to a record that was already
\* complete or failed, and the record holds images and failures.
C9_Witness ==
    /\ job # NoJob /\ lateMerge /\ lastOp = "updateJobProgress"
    /\ job.completedImages # <<>> /\ job.failedCount > 0

(***************************************************************************)
(* Claims about the batch run, checked under Spec (C4 under LiveSpec).     *)
(***************************************************************************)
\* Generation calls outstanding: generateImageWithRetry has been entered
\* and has not returned (an attempt is in flight or its backoff is running).
InFlight == Cardinality({p \in Prompts : tpc[p] \in {"fetch", "sleep"}})

\* C1 (as claimed): while a chunk larger than MAX_CONCURRENCY is being
\* processed, at most MAX_CONCURRENCY generation calls are outstanding.
C1_ConcurrencyCapRespected ==
    (bpc = "awaitBatch" /\ Len(batches[bi]) > MAX_CONCURRENCY)
        => InFlight <= MAX_CONCURRENCY

BatchOf(p) == (p \div batchSize) + 1

\* The merge of p's batch has been persisted and the record is in the store.
Recorded(p) == job # NoJob /\ mergesDone >= BatchOf(p)

ImageEntries(p) ==
    Cardinality({k \in DOMAIN job.completedImages : job.completedImages[k].index = p})

ErrorEntries(p) ==
    Cardinality({k \in DOMAIN job.errors : job.errors[k].src = p})

\* C3: no prompt is handed to processPrompt twice; every prompt of a
\* launched batch has been handed to it, whatever became of the prompts
\* before it; and when the run returns (every merge succeeded) each prompt
\* has been handed over exactly once and has exactly one entry in
\* completedImages or errors of the stored record.
C3_EveryPromptOnceOneEntry ==
    /\ \A p \in Prompts : calls[p] <= 1
    /\ \A p \in Prompts : (bi >= 1 /\ BatchOf(p) <= bi) => calls[p] = 1
    /\ bpc = "done" =>
          /\ \A p \in Prompts : calls[p] = 1
          /\ job # NoJob =>
                /\ \A p \in Prompts : ImageEntries(p) + ErrorEntries(p) = 1
                /\ Len(job.completedImages) + Len(job.errors) = nPrompts

\* C3 witness: a run of two chunks has returned; the first prompt failed,
\* the second threw, the last one (in the later chunk) succeeded.
C3_Witness ==
    /\ bpc = "done" /\ job # NoJob /\ nPrompts = 3 /\ Len(batches) = 2
    /\ tpc[0] = "failed" /\ tpc[1] = "threw" /\ tpc[2] = "ok"

RunComplete ==
    /\ bpc = "done" /\ job # NoJob
    /\ job.status = "complete"
    /\ Accounted(job) = job.totalPrompts

\* C4: if no Job Store call of the submission fails (createJob's put, and
\* every getJob and put of the run), the run eventually returns with the
\* stored status complete and completedImages.length + failedCount equal to
\* totalPrompts.
C4_RunTerminatesComplete == <>(kvFailed \/ hpc = "threw" \/ RunComplete)

\* C4 witness: a run of two chunks with a success and a failure has
\* returned without any Job Store failure and the record is complete.
C4_Witness ==
    /\ RunComplete /\ ~kvFailed /\ Len(batches) = 2
    /\ job.completedImages # <<>> /\ job.failedCount > 0

\* C5: a prompt whose attempts were retryable, retryable, success took
\* exactly three generateImage calls and the two backoffs, its
\* generateImageWithRetry call returned the success (processPrompt went on
\* to storeImage), and once its image is stored and its chunk merged it has
\* one completedImages entry and no errors entry.
C5_ThirdAttemptSuccessRecorded ==
    \A p \in Prompts :
        hist[p] = <<"retryable", "retryable", "ok">> =>
            /\ genCalls[p] = 3
            /\ delays[p] = <<1000, 2000>>
            /\ tpc[p] \in {"store", "ok", "threw"}
            /\ (tpc[p] = "ok" /\ Recorded(p)) =>
                  (ImageEntries(p) = 1 /\ ErrorEntries(p) = 0)

\* C5 witness: such a prompt is in the stored record as a completed image.
C5_Witness ==
    \E p \in Prompts :
        /\ hist[p] = <<"retryable", "retryable", "ok">>
        /\ tpc[p] = "ok" /\ Recorded(p) /\ ImageEntries(p) = 1

\* C6: a non-retryable failure is the last attempt of its prompt, whichever
\* attempt it is: the prompt has failed, no call and no backoff follows it
\* (a non-retryable first attempt means exactly one generateImage call and
\* no sleep), and once its chunk is merged the prompt is an errors entry
\* and not a completed image.
C6_NonRetryableFailsAtOnce ==
    \A p \in Prompts :
        \A i \in 1..Len(hist[p]) :
            hist[p][i] = "fatal" =>
                /\ i = Len(hist[p])
                /\ tpc[p] = "failed"
                /\ genCalls[p] = i
                /\ Len(delays[p]) = i - 1
                /\ Recorded(p) => (ErrorEntries(p) = 1 /\ ImageEntries(p) = 0)

\* C6 witness: one prompt failed non-retryably on its first attempt,
\* another on its second, and both are recorded.
C6_Witness ==
    \E p, q \in Prompts :
        /\ hist[p] = <<"fatal">> /\ genCalls[p] = 1 /\ Recorded(p)
        /\ hist[q] = <<"retryable", "fatal">> /\ Recorded(q)

\* C8 (as claimed): when the run has thrown before any chunk's merge
\* completed and the record is in the store, the record is marked failed
\* and carries the synthetic error entry.
C8_ThrownRunMarksJobFailed ==
    (bpc = "rejected" /\ mergesDone = 0 /\ job # NoJob)
        => /\ job.status = "failed"
           /\ \E k \in DOMAIN job.errors : job.errors[k] = SyntheticError

(***************************************************************************)
(* Claims about the template expander, checked under SpecExpand.           *)
(***************************************************************************)
\* The distinct placeholders of a template, read off its tokens.
PlaceholderSet(tpl) == {tpl[k].name : k \in {i \in DOMAIN tpl : tpl[i].kind = "ph"}}

RECURSIVE ProductOfLengths(_, _)
ProductOfLengths(S, vs) ==
    IF S = {} THEN 1
    ELSE LET n == CHOOSE n \in S : TRUE
         IN  Len(vs[n]) * ProductOfLengths(S \ {n}, vs)

\* C10: for a validated assignment, expandTemplate returns as many prompts
\* as the product of the candidate-list lengths of the template's distinct
\* placeholders; the prompt at position i has index i (zero-based); and a
\* template without placeholders yields the template itself, once, with an
\* empty assignment and index 0.
C10_ProductCountDenseIndices ==
    expansion # NoResult =>
        /\ Len(expansion.prompts) = ProductOfLengths(PlaceholderSet(template), variables)
        /\ \A i \in DOMAIN expansion.prompts : expansion.prompts[i].index = i - 1
        /\ PlaceholderSet(template) = {} =>
              expansion.prompts = <<[prompt |-> template, variableValues |-> <<>>, index |-> 0]>>

\* C10 witness: a template naming X twice and Y once, two candidates each,
\* has been expanded into four prompts.
C10_Witness ==
    /\ expansion # NoResult
    /\ template = <<Ph("X"), Ph("Y"), Ph("X")>>
    /\ Len(variables["X"]) = 2 /\ Len(variables["Y"]) = 2
    /\ Len(expansion.prompts) = 4
    /\ expansion.prompts[4].index = 3

\* The position of the first token <n> of a template.
FirstPos(tpl, n) ==
    CHOOSE k \in DOMAIN tpl : tpl[k] = Ph(n) /\ \A j \in 1..(k - 1) : tpl[j] # Ph(n)

\* The placeholders that first appear after n.
LaterThan(tpl, n) ==
    {m \in PlaceholderSet(tpl) : FirstPos(tpl, m) > FirstPos(tpl, n)}

\* The digit of placeholder n in combination number c (from 0) of an
\* odometer whose wheels are the placeholders in order of first appearance,
\* the last one turning fastest.
OdometerDigit(tpl, vs, n, c) ==
    ((c \div ProductOfLengths(LaterThan(tpl, n), vs)) % Len(vs[n])) + 1

Restrict(vs, S) == [n \in (DOMAIN vs) \cap S |-> vs[n]]

\* C11: for a validated assignment, the combinations come in odometer order
\* over the placeholders in order of first appearance: combination number c
\* gives placeholder n the candidate at n's odometer digit, the placeholder
\* appearing last varying fastest and the first slowest, values in the order
\* of the candidate list; and the result is the one obtained from the
\* assignment without its entries for names the template does not use.
C11_OdometerOrder ==
    expansion # NoResult =>
        /\ \A i \in DOMAIN expansion.prompts : \A n \in PlaceholderSet(template) :
              expansion.prompts[i].variableValues[n]
                 = variables[n][OdometerDigit(template, variables, n, i - 1)]
        /\ expansion = expandTemplate(template, Restrict(variables, PlaceholderSet(template)))

\* C11 witness: Y appears first and X last, two distinct candidates each;
\* the second prompt has moved X on and kept Y, the third has moved Y on.
C11_Witness ==
    /\ expansion # NoResult
    /\ template = <<Ph("Y"), Lit("a"), Ph("X")>>
    /\ variables["X"] = << <<Lit("v")>>, <<Dollar("&")>> >>
    /\ variables["Y"] = << <<Lit("v")>>, <<Lit("w")>> >>
    /\ expansion.prompts[2].variableValues = [X |-> <<Dollar("&")>>, Y |-> <<Lit("v")>>]
    /\ expansion.prompts[3].variableValues = [X |-> <<Lit("v")>>, Y |-> <<Lit("w")>>]

\* The template with every placeholder token replaced, all at once, by the
\* value vv gives its name.
RECURSIVE SubstituteAll(_, _)
SubstituteAll(tpl, vv) ==
    IF tpl = <<>> THEN <<>>
    ELSE (IF Head(tpl).kind = "ph" /\ Head(tpl).name \in DOMAIN vv
          THEN vv[Head(tpl).name]
          ELSE <<Head(tpl)>>)
            \o SubstituteAll(Tail(tpl), vv)

\* No candidate value holds text that reads as a placeholder token.
NoTokenInValues(vs) ==
    \A n \in DOMAIN vs : \A k \in DOMAIN vs[n] : \A j \in DOMAIN vs[n][k] :
        vs[n][k][j].kind # "ph"

\* C13: in every expanded prompt, every occurrence of each placeholder token
\* of the template, not only the first, is replaced by the value assigned to
\* that placeholder in the combination, and variableValues records exactly
\* that value for each placeholder.  Stated for the assignments none of
\* whose values holds a placeholder token.
C13_EveryOccurrenceReplaced ==
    (expansion # NoResult /\ NoTokenInValues(variables)) =>
        \A i \in DOMAIN expansion.prompts :
            LET p == expansion.prompts[i] IN
            /\ DOMAIN p.variableValues = PlaceholderSet(template)
            /\ \A n \in PlaceholderSet(template) :
                  p.variableValues[n]
                     = variables[n][OdometerDigit(template, variables, n, i - 1)]
            /\ p.prompt = SubstituteAll(template, p.variableValues)

(***************************************************************************)
(* Claims about validation and the Generate handler.                       *)
(***************************************************************************)
MissingSet(tpl, vs) == {n \in PlaceholderSet(tpl) : n \notin DOMAIN vs}
EmptySet(tpl, vs) == {n \in PlaceholderSet(tpl) : n \in DOMAIN vs /\ vs[n] = <<>>}

\* C14: validateVariables reports a placeholder of the template as missing
\* exactly when its name is absent from the assignment, as empty exactly
\* when it is present with a zero-length list, and valid = true exactly when
\* both lists are empty; entries of the assignment for names the template
\* does not use never make validation fail.
C14_MissingEmptyExact ==
    validation # NoResult =>
        /\ Range(validation.missing) = MissingSet(template, variables)
        /\ Range(validation.empty) = EmptySet(template, variables)
        /\ validation.valid <=> (validation.missing = <<>> /\ validation.empty = <<>>)
        /\ validation = validateVariables(template, Restrict(variables, PlaceholderSet(template)))

\* C14 witness: X is absent, Y is present with an empty list; and a valid
\* submission that carries an entry the template does not use is checked
\* by the same formula (template without Y, assignment with Y).
C14_Witness ==
    /\ validation # NoResult
    /\ template = <<Ph("X"), Ph("Y")>>
    /\ DOMAIN variables = {"Y"} /\ variables["Y"] = <<>>
    /\ validation.missing = <<"X">> /\ validation.empty = <<"Y">>
    /\ ~validation.valid

\* The variables an error text names under a label.
NamedUnder(error, label) ==
    UNION {Range(error[k].names) : k \in {i \in DOMAIN error : error[i].label = label}}

\* C15: when validation reports a missing or an empty placeholder, the
\* handler returns an error at once that names every missing and every
\* empty variable, and it creates no Job Record, expands nothing and starts
\* no generation call.
C15_InvalidRejectedNothingStarted ==
    (validation # NoResult
        /\ MissingSet(template, variables) \cup EmptySet(template, variables) # {}) =>
        /\ expansion = NoResult
        /\ job = NoJob /\ lastOp = "none"
        /\ hpc = "idle" /\ bpc = "idle" /\ genCalls = <<>> /\ calls = <<>>
        /\ httpResponse = NoResult => ENABLED Reject
        /\ httpResponse # NoResult =>
              /\ httpResponse.status = 400 /\ ~httpResponse.success
              /\ NamedUnder(httpResponse.error, "Missing variables")
                    = MissingSet(template, variables)
              /\ NamedUnder(httpResponse.error, "Empty variables")
                    = EmptySet(template, variables)

\* C15 witness: the 400 response to a template using X and Y submitted with
\* no entry for X and an empty list for Y; both are named.
C15_Witness ==
    /\ httpResponse # NoResult
    /\ template = <<Ph("X"), Ph("Y")>>
    /\ DOMAIN variables = {"Y"} /\ variables["Y"] = <<>>
    /\ httpResponse.error = <<[label |-> "Missing variables", names |-> <<"X">>],
                              [label |-> "Empty variables", names |-> <<"Y">>]>>
    /\ job = NoJob /\ expansion = NoResult

(***************************************************************************)
(* Claims about merges, checked under SpecMerge.                           *)
(***************************************************************************)
\* C16: merges accumulate and are append-only: from a freshly created job,
\* after updateJobProgress calls given (I_1, E_1) ... (I_k, E_k), the stored
\* completedImages is I_1 ... I_k concatenated in call order, errors is
\* E_1 ... E_k concatenated, and failedCount is the sum of the |E_i|; so no
\* merge removes or reorders an entry stored before it.
C16_MergesConcatenate ==
    job # NoJob =>
        /\ job.completedImages = sentImages
        /\ job.errors = sentErrors
        /\ job.failedCount = Len(sentErrors)

\* C16 witness: totalPrompts = 4, merges of {2 images, 0 errors} and then
\* {1 image, 1 error}: 3 images, failedCount 1, status complete.
C16_Witness ==
    /\ job # NoJob /\ job.totalPrompts = 4
    /\ sentImages = <<StoreImage(0), StoreImage(1), StoreImage(0)>>
    /\ sentErrors = <<StoreError(1)>>
    /\ Len(job.completedImages) = 3 /\ job.failedCount = 1
    /\ job.status = "complete"

(***************************************************************************)
(* Claims about the order of chunks and merges, checked under Spec.        *)
(***************************************************************************)
\* processPrompt for p has returned or thrown.
TerminalOutcome(p) == tpc[p] \notin {"idle", "fetch", "sleep", "store"}

Merging == bpc \in {"mergeGet", "mergePut"}

EntryCount(j) == Len(j.completedImages) + Len(j.errors)

\* C17: the merge of a chunk starts only after every prompt of the chunk has
\* reached a terminal outcome, and each merge reports a whole chunk: the
\* entries it adds to completedImages plus those it adds to errors are as
\* many as the chunk has prompts; so the stored record always holds the
\* entries of whole chunks.
C17_MergeReportsWholeChunk ==
    /\ Merging =>
          /\ \A p \in Range(batches[bi]) : TerminalOutcome(p)
          /\ Len(batchImages) + Len(batchErrors) = Len(batches[bi])
    /\ (bpc = "mergePut" /\ job # NoJob) =>
          EntryCount(jobLocal) - EntryCount(job) = Len(batches[bi])
    /\ job # NoJob => EntryCount(job) = Min(mergesDone * batchSize, nPrompts)

\* C17 witness: the merge of a chunk of two prompts, one generated and one
\* failed, is about to be written.
C17_Witness ==
    /\ bpc = "mergePut" /\ job # NoJob
    /\ Len(batches[bi]) = 2
    /\ Len(batchImages) = 1 /\ Len(batchErrors) = 1
    /\ EntryCount(jobLocal) = EntryCount(job) + 2

\* The entries of a stored list come chunk after chunk.
InChunkOrder(entries, PromptOf(_)) ==
    \A k, l \in DOMAIN entries :
        k < l => BatchOf(PromptOf(entries[k])) <= BatchOf(PromptOf(entries[l]))

ImagePrompt(e) == e.index
ErrorPrompt(e) == e.src

\* C18: chunks are processed strictly one after the other within a run: no
\* generation call for a prompt of chunk k+1 starts before the merge of
\* chunk k has been persisted; the merges reach the Job Store in chunk
\* order, the merge under way being that of the chunk right after the last
\* persisted one, with no call of the run outstanding beside it.
C18_ChunksStrictlySequential ==
    /\ \A p \in Prompts : genCalls[p] >= 1 => mergesDone >= BatchOf(p) - 1
    /\ \A p \in Prompts : tpc[p] \in {"fetch", "sleep", "store"} => BatchOf(p) = bi
    /\ bpc \in {"awaitBatch", "mergeGet", "mergePut"} => bi = mergesDone + 1
    /\ Merging => \A p \in Prompts : tpc[p] \notin {"fetch", "sleep", "store"}
    /\ job # NoJob =>
          /\ InChunkOrder(job.completedImages, ImagePrompt)
          /\ InChunkOrder(job.errors, ErrorPrompt)

\* C18 witness: three chunks of one prompt; the first merge is persisted,
\* the second chunk's call is outstanding, the third chunk has not started.
C18_Witness ==
    /\ nPrompts = 3 /\ batchSize = 1
    /\ bpc = "awaitBatch" /\ bi = 2 /\ mergesDone = 1
    /\ job # NoJob /\ EntryCount(job) = 1
    /\ tpc[1] = "fetch" /\ genCalls[2] = 0

(***************************************************************************)
(* Claims about the live feed, checked under SpecFeed.                     *)
(***************************************************************************)
IsPrefix(a, b) == Len(a) <= Len(b) /\ a = SubSeq(b, 1, Len(a))

NoDuplicates(seq) == \A k, l \in DOMAIN seq : seq[k] = seq[l] => k = l

ProgressOf(events) ==
    LET IsProgress(ev) == ev.event = "progress" IN SelectSeq(events, IsProgress)

\* What every step of the feed and of the writers keeps or does: the images
\* carried so far are distinct and are the first images of the record, in
\* its order; and a step that carries images is a tick with exactly one
\* progress event, which holds the images of the record it read from the
\* first one not yet carried to the last.
CarriesOnlyTheNewImages ==
    /\ NoDuplicates(carried')
    /\ job' # NoJob => IsPrefix(carried', job'.completedImages)
    /\ carried' # carried =>
          /\ job # NoJob
          /\ Len(ProgressOf(lastTick')) = 1
          /\ ProgressOf(lastTick')[1].images # <<>>
          /\ ProgressOf(lastTick')[1].images
                = SubSeq(job.completedImages, Len(carried) + 1, Len(job.completedImages))
          /\ carried' = job.completedImages
    /\ (carried' = carried /\ lastTick' # lastTick) => ProgressOf(lastTick') = <<>>

\* C19: over one live feed, completedImages growing only by appends, each
\* completed image is carried by at most one progress event, each progress
\* event carries exactly the images appended since the previous progress
\* event, and the images come in the order of completedImages.
C19_ImagesCarriedOnceInOrder == [][CarriesOnlyTheNewImages]_vars

\* C19 witness: a second progress event, carrying the one image appended
\* after the first event and reporting two completed.
C19_Witness ==
    /\ job # NoJob /\ Len(job.completedImages) = 2
    /\ carried = job.completedImages
    /\ lastTick # <<>> /\ lastTick[1].event = "progress"
    /\ lastTick[1].images = <<job.completedImages[2]>>
    /\ lastTick[1].completed = 2

\* C20 (as claimed): the error events of a poll tick are only for entries of
\* job.errors beyond those emitted on earlier ticks; an entry already
\* surfaced is not emitted again.
C20_ErrorsEmittedOnce ==
    \A k \in DOMAIN lastTick :
        "at" \in DOMAIN lastTick[k] => lastTick[k].at > surfaced

CompleteOf(events) ==
    LET IsComplete(ev) == ev.event = "complete" IN SelectSeq(events, IsComplete)

\* The last poll read a record whose status is complete or failed.
SawTerminal == seen.kind = "read" /\ seen.status \in {"complete", "failed"}

\* Nothing of the feed moves: no poll, no event.
FeedAtRest ==
    UNCHANGED <<fpc, lastSentCount, pollCount, carried, lastTick, surfaced, seen,
                completes, dropped>>

\* C21: when a poll observes status complete or failed, the feed emits
\* exactly one complete event, the last event of that tick, with
\* totalGenerated = completedImages.length and totalFailed = failedCount of
\* the record observed; the stream is closed, and from then on there is no
\* further poll and no further event; a feed never emits more than one
\* complete event.
C21_OneCompleteEventThenEnd ==
    /\ [](/\ completes <= 1
          /\ SawTerminal =>
                /\ fpc = "closed" /\ completes = 1
                /\ Len(CompleteOf(lastTick)) = 1
                /\ lastTick[Len(lastTick)]
                      = [event |-> "complete", totalGenerated |-> seen.completed,
                         totalFailed |-> seen.failed])
    /\ [][fpc = "closed" => FeedAtRest]_vars

\* C21 witness: after an earlier poll, a poll has read a complete record
\* with two images and one failure; the feed is closed with one complete
\* event.
C21_Witness ==
    /\ SawTerminal /\ seen.status = "complete"
    /\ seen.completed = 2 /\ seen.failed = 1
    /\ pollCount >= 1 /\ fpc = "closed" /\ completes = 1

\* C22 (as claimed): for a job already complete when the feed makes its
\* first poll, the whole event sequence of the feed is exactly one progress
\* event if completedImages is non-empty (none otherwise), followed
\* immediately by exactly one complete event, and the feed ends.
C22_ProgressThenCompleteOnly ==
    (pollCount = 0 /\ SawTerminal /\ seen.status = "complete") =>
        /\ fpc = "closed"
        /\ Len(ProgressOf(lastTick)) = (IF seen.completed > 0 THEN 1 ELSE 0)
        /\ Len(CompleteOf(lastTick)) = 1
        /\ Len(lastTick) = Len(ProgressOf(lastTick)) + 1
        /\ lastTick[Len(lastTick)].event = "complete"

\* The events of a first poll that reads the complete record j: all its
\* images in one progress event if it has any, one error event for each of
\* its latest errorWindow entries of errors, one complete event.
FirstPollSequence(j) ==
    LET n == Len(j.errors)
        from == IF n > errorWindow THEN n - errorWindow ELSE 0
    IN  (IF j.completedImages # <<>>
         THEN <<[event |-> "progress", completed |-> Len(j.completedImages),
                 total |-> j.totalPrompts, images |-> j.completedImages]>>
         ELSE <<>>)
        \o [k \in 1..(n - from) |->
               [event |-> "error", prompt |-> j.errors[from + k].prompt,
                index |-> j.errors[from + k].index, retryable |-> FALSE,
                at |-> from + k]]
        \o <<[event |-> "complete", totalGenerated |-> Len(j.completedImages),
              totalFailed |-> j.failedCount]>>

\* The first poll reads the record and finds it complete: that step ends
\* the feed (the first poll has pollCount = 0, and the cap is not reached).
FirstPollEndsFeed ==
    /\ fpc = "polling" /\ fpc' = "closed" /\ pollCount = 0
    /\ job # NoJob /\ job.status = "complete"

\* C22 (amended): for a job already complete when the feed makes its first
\* poll, the whole event sequence of the feed is one progress event with
\* all images if completedImages is non-empty (none otherwise), then one
\* error event for each of the latest entries of errors, then exactly one
\* complete event, and the feed ends; nothing was emitted before.
C22_ProgressErrorsComplete ==
    /\ [][FirstPollEndsFeed =>
            /\ lastTick = NoTick /\ carried = <<>> /\ completes = 0
            /\ lastTick' = FirstPollSequence(job)
            /\ completes' = 1]_vars
    /\ []((pollCount = 0 /\ SawTerminal) => fpc = "closed")
    /\ [][fpc = "closed" => FeedAtRest]_vars

\* C22 witness: the first poll has read a complete record with one image
\* and one failed prompt: progress, error, complete.
C22_Witness ==
    /\ pollCount = 0 /\ SawTerminal /\ seen.status = "complete"
    /\ seen.completed = 1 /\ seen.failed = 1
    /\ Len(lastTick) = 3
    /\ lastTick[1].event = "progress" /\ lastTick[2].event = "error"
    /\ lastTick[3].event = "complete"
    /\ fpc = "closed"

\* The last poll found no record under the job id.
SawAbsent == seen.kind = "absent"

\* C23: when the record is absent on a poll after the feed has started, the
\* feed emits one error event ("Job not found") and ends: that tick emits
\* nothing else, the feed has emitted no complete event, the stream is
\* closed, and no poll and no progress or complete event follows.
C23_AbsentRecordEndsFeed ==
    /\ [](SawAbsent =>
            /\ fpc = "closed"
            /\ Len(lastTick) = 1
            /\ lastTick[1].event = "error"
            /\ lastTick[1].error = "Job not found"
            /\ completes = 0)
    /\ [][SawAbsent => (FeedAtRest /\ SawAbsent')]_vars

\* C23 witness: the feed had carried an image and polled more than once when
\* the record disappeared; it emitted the error and closed.
C23_Witness ==
    /\ SawAbsent /\ job = NoJob /\ fpc = "closed"
    /\ pollCount >= 2 /\ carried # <<>>
    /\ lastTick = <<[event |-> "error", error |-> "Job not found"]>>

\* The feed has ended: the stream is closed, or it was never opened (404).
FeedEnded == fpc \in {"closed", "notFound"}

\* A step of the running loop that does anything.
LoopMoves ==
    /\ fpc = "polling"
    /\ <<fpc, lastSentCount, pollCount, carried, lastTick, surfaced, seen,
         completes, dropped>>' #
       <<fpc, lastSentCount, pollCount, carried, lastTick, surfaced, seen,
         completes, dropped>>

\* C24: the live feed always terminates.  The loop never counts more than
\* maxPolls polls; every step of the running loop either counts one poll
\* (an iteration that reads the record, or one whose read throws) or ends
\* the feed; once maxPolls polls are counted the stream is closed whatever
\* the job's status is; and under fair scheduling of the loop every feed
\* ends.  (The 500 ms wait between iterations is not modelled.)
C24_FeedTerminates ==
    /\ [](pollCount <= maxPolls)
    /\ [][LoopMoves =>
            \/ fpc' = "polling" /\ pollCount' = pollCount + 1
            \/ fpc' = "closed" /\ pollCount' = pollCount]_vars
    /\ [][(fpc = "polling" /\ seen'.kind = "threw" /\ seen.kind # "threw")
            => pollCount' = pollCount + 1]_vars
    /\ (fpc = "polling" /\ pollCount = maxPolls) ~> (fpc = "closed" /\ pollCount = maxPolls)
    /\ <>FeedEnded

\* C24 witness: the cap closed the stream of a job that is still processing,
\* the last iteration being one whose read threw.
C24_Witness ==
    /\ fpc = "closed" /\ pollCount = maxPolls
    /\ job # NoJob /\ job.status = "processing"
    /\ seen.kind = "threw"

\* C25: a failed write to the feed's transport never terminates the polling
\* loop and never changes the Job Record or the batch run.  A tick whose
\* events were dropped goes on as a tick whose events were written: it ends
\* the feed exactly when it read a terminal status or found no record,
\* otherwise the loop is still polling or has stopped at the poll cap; the
\* feed ends for no other reason; and no step of the loop touches the Job
\* Store or the batch run.
C25_WriteFailureOnlyDropsEvents ==
    /\ [](dropped =>
            /\ clientGone /\ lastTick # NoTick
            /\ (SawTerminal \/ SawAbsent) => fpc = "closed"
            /\ ~(SawTerminal \/ SawAbsent) =>
                  \/ fpc = "polling"
                  \/ fpc = "closed" /\ pollCount = maxPolls)
    /\ [][(fpc = "polling" /\ fpc' = "closed") =>
            (SawTerminal' \/ SawAbsent' \/ pollCount = maxPolls)]_vars
    /\ [][LoopMoves => UNCHANGED <<storeVars, batchVars>>]_vars

\* C25 witness: the client is gone, the events of the last tick (a progress
\* event among them) were dropped, and the loop is still polling.
C25_Witness ==
    /\ clientGone /\ dropped /\ fpc = "polling" /\ pollCount >= 2
    /\ ProgressOf(lastTick) # <<>>
    /\ job # NoJob /\ job.status = "processing"

(***************************************************************************)
(* The read-only endpoints beside the writers of the record:               *)
(* GenerateStatusPoll, ImageGet, ImagesDownload and the GenerateStatus     *)
(* feed (SpecRead).                                                        *)
(***************************************************************************)

\* Cap of ImagesDownload on the number of ids of one request.
maxDownload == 100

\* Mutant: the snapshot counts the failed prompts among the completed.
statusSnapshot_CountsFailed(j) ==
    IF j = NoJob
    THEN [endpoint |-> "poll", status |-> 404, success |-> FALSE,
          error |-> "Job not found"]
    ELSE [endpoint |-> "poll", status |-> 200, success |-> TRUE,
          jobId |-> j.jobId, jobStatus |-> j.status,
          totalPrompts |-> j.totalPrompts,
          completedCount |-> Len(j.completedImages) + j.failedCount,
          failedCount |-> j.failedCount,
          images |-> j.completedImages]

\* GenerateStatusPoll.handle: the response built from what getJob returned.
statusSnapshot(j) ==
    IF j = NoJob
    THEN [endpoint |-> "poll", status |-> 404, success |-> FALSE,
          error |-> "Job not found"]
    ELSE [endpoint |-> "poll", status |-> 200, success |-> TRUE,
          jobId |-> j.jobId, jobStatus |-> j.status,
          totalPrompts |-> j.totalPrompts,
          completedCount |-> Len(j.completedImages),
          failedCount |-> j.failedCount,
          images |-> j.completedImages]

\* The image ids a client can ask for: an id of fewer than six segments, or
\* the id of the image of prompt index i of this job.
ImageRequests == [wellFormed : BOOLEAN, index : 0..(MaxReadTotal - 1)]

\* job.completedImages.find(img => img.id === imageId)
findImage(j, req) ==
    LET Is(img) == img.index = req.index IN SelectSeq(j.completedImages, Is)

\* ImageGet.handle: stored says whether the bucket holds the object.
imageGet(j, req, stored) ==
    IF ~req.wellFormed
    THEN [endpoint |-> "imageGet", status |-> 400, error |-> "Invalid image ID format"]
    ELSE IF j = NoJob
    THEN [endpoint |-> "imageGet", status |-> 404, error |-> "Job not found"]
    ELSE IF findImage(j, req) = <<>>
    THEN [endpoint |-> "imageGet", status |-> 404, error |-> "Image not found in job"]
    ELSE IF ~stored
    THEN [endpoint |-> "imageGet", status |-> 404, error |-> "Image not found in storage"]
    ELSE [endpoint |-> "imageGet", status |-> 200, error |-> "",
          image |-> findImage(j, req)[1]]

\* The r2Keys ImagesDownload collects: ill-formed ids, a missing job and
\* unknown images are skipped.
RECURSIVE collectKeys(_, _)
collectKeys(j, imageIds) ==
    IF imageIds = <<>> THEN <<>>
    ELSE LET req == Head(imageIds)
             found == IF req.wellFormed /\ j # NoJob THEN findImage(j, req) ELSE <<>>
         IN  (IF found # <<>> THEN <<found[1]>> ELSE <<>>)
             \o collectKeys(j, Tail(imageIds))

\* ImagesDownload.handle: stored is the set of prompt indexes whose object
\* the bucket holds.
imagesDownload(j, imageIds, stored) ==
    LET r2Keys == collectKeys(j, imageIds)
        InBucket(img) == img.index \in stored
        images == SelectSeq(r2Keys, InBucket)
    IN  IF Len(imageIds) = 0
        THEN [endpoint |-> "download", status |-> 400, files |-> <<>>]
        ELSE IF Len(imageIds) > maxDownload
        THEN [endpoint |-> "download", status |-> 400, files |-> <<>>]
        ELSE IF Len(r2Keys) = 0
        THEN [endpoint |-> "download", status |-> 404, files |-> <<>>]
        ELSE IF Len(images) = 0
        THEN [endpoint |-> "download", status |-> 500, files |-> <<>>]
        ELSE [endpoint |-> "download", status |-> 200, files |-> images]

ReadInit ==
    /\ \E n \in 1..MaxReadTotal : job = createJob(n)
    /\ lastOp = "createJob" /\ opThrew = FALSE /\ lateMerge = FALSE
    /\ fpc = "request" /\ lastSentCount = 0 /\ pollCount = 0
    /\ clientGone = FALSE /\ FeedGhostsInit
    /\ IdleBatch /\ IdleExpand /\ IdleMerge /\ IdleRead /\ IdleIds /\ IdleExtra

\* One client issues the requests to the three endpoints one after the
\* other: readResponse is the response being returned, NoResult between
\* two requests.
ReadPoll ==
    /\ readResponse = NoResult
    /\ readResponse' = statusSnapshot(job)
    /\ UNCHANGED <<storeVars, batchVars, expandVars, mergeVars, feedVars, idVars, extraVars>>

\* The bucket holds the object of a stored image or has lost it; for an
\* image the record does not list, the bucket is not consulted.
ReadImageGet ==
    /\ readResponse = NoResult
    /\ \E req \in ImageRequests :
          \E stored \in IF job # NoJob /\ findImage(job, req) # <<>>
                        THEN BOOLEAN ELSE {FALSE} :
             readResponse' = imageGet(job, req, stored)
    /\ UNCHANGED <<storeVars, batchVars, expandVars, mergeVars, feedVars, idVars, extraVars>>

ReadImagesDownload ==
    /\ readResponse = NoResult
    /\ \E imageIds \in SeqsUpTo(ImageRequests, MaxDownloadIds) :
          \E stored \in SUBSET {img.index : img \in Range(collectKeys(job, imageIds))} :
             readResponse' = imagesDownload(job, imageIds, stored)
    /\ UNCHANGED <<storeVars, batchVars, expandVars, mergeVars, feedVars, idVars, extraVars>>

\* The response has been returned to the client.
ReadReturn ==
    /\ readResponse # NoResult
    /\ readResponse' = NoResult
    /\ UNCHANGED <<storeVars, batchVars, expandVars, mergeVars, feedVars, idVars, extraVars>>

ReadNext ==
    \/ ReadPoll
    \/ ReadImageGet
    \/ ReadImagesDownload
    \/ ReadReturn
    \/ FeedOpen
    \/ FeedTick
    \/ FeedCap
    \/ FeedWriterMerge
    \/ StoreMarkJobFailed
    \/ StoreDeleteJob

SpecRead == ReadInit /\ [][ReadNext]_vars

\* A step in which some reader did something: an endpoint answered, or the
\* feed's handler or loop moved.
ReaderMoves ==
    \/ readResponse' # readResponse
    \/ <<fpc, lastSentCount, pollCount, carried, lastTick, surfaced, seen,
         completes, dropped>>' #
       <<fpc, lastSentCount, pollCount, carried, lastTick, surfaced, seen,
         completes, dropped>>

\* C26: readers never mutate the Job Store: no step of GenerateStatusPoll,
\* of the GenerateStatus feed, of ImageGet or of ImagesDownload changes the
\* stored record, whatever the writers do in between; and the snapshot
\* reports completedCount = completedImages.length and failedCount (and the
\* status and totalPrompts) of the record it read, or not-found (404) when
\* the job is absent.
C26_ReadersNeverMutate ==
    /\ [][ReaderMoves => job' = job]_vars
    /\ [][(/\ readResponse' # readResponse /\ readResponse' # NoResult
            /\ readResponse'.endpoint = "poll") =>
            IF job = NoJob
            THEN /\ readResponse'.status = 404
                 /\ readResponse'.error = "Job not found"
            ELSE /\ readResponse'.status = 200
                 /\ readResponse'.completedCount = Len(job.completedImages)
                 /\ readResponse'.failedCount = job.failedCount
                 /\ readResponse'.jobStatus = job.status
                 /\ readResponse'.totalPrompts = job.totalPrompts]_vars

\* C26 witness: the snapshot reported a job with one image and one failed
\* prompt, after the feed had polled it and after ImageGet or
\* ImagesDownload could have answered.
C26_Witness ==
    /\ readResponse # NoResult /\ readResponse.endpoint = "poll"
    /\ readResponse.status = 200
    /\ readResponse.completedCount = 1 /\ readResponse.failedCount = 1
    /\ job # NoJob /\ Len(job.completedImages) = 1 /\ job.failedCount = 1
    /\ pollCount >= 1 /\ carried # <<>>

\* The record createJob writes for a submission of n prompts.
FreshRecord(j, n) ==
    /\ j # NoJob
    /\ j.status = "pending" /\ j.totalPrompts = n
    /\ j.completedImages = <<>> /\ j.errors = <<>> /\ j.failedCount = 0

\* processBatches has been called.
RunStarted == bpc \notin {"idle", "notStarted"}

\* Generate.handle has returned the job id.
Responded == httpResponse # NoResult /\ httpResponse.success

\* C27: for an accepted submission the Job Record is created exactly once,
\* with status pending, empty completedImages and errors, failedCount 0 and
\* totalPrompts = the number of expanded prompts; its write has completed
\* before the run starts and before the job id is returned (a createJob that
\* throws starts no run and returns no id); and the response waits for no
\* generation call: when it is returned, calls of the first batch are in
\* flight and none has returned.
C27_RecordCreatedBeforeRunAndResponse ==
    /\ [][job' # job =>
            /\ job = NoJob /\ hpc = "createJob" /\ ~RunStarted
            /\ expansion # NoResult /\ httpResponse = NoResult
            /\ FreshRecord(job', Len(expansion.prompts))]_vars
    /\ [](RunStarted => job # NoJob)
    /\ [](hpc = "threw" => (job = NoJob /\ ~RunStarted /\ ~Responded))
    /\ [](Responded =>
            /\ FreshRecord(job, Len(expansion.prompts))
            /\ httpResponse.jobId = job.jobId
            /\ httpResponse.totalPrompts = Len(expansion.prompts)
            /\ RunStarted
            /\ \E p \in Prompts : tpc[p] = "fetch" /\ genCalls[p] = 1
            /\ \A p \in Prompts : hist[p] = <<>>)

\* C27 witness: a submission of four prompts was answered with the job id
\* while the generation calls of its first batch are in flight.
C27_Witness ==
    /\ Responded /\ httpResponse.totalPrompts = 4
    /\ job # NoJob /\ job.status = "pending" /\ job.totalPrompts = 4
    /\ \E p \in Prompts : tpc[p] = "fetch"
    /\ \E p \in Prompts : tpc[p] = "idle"

(***************************************************************************)
(* The image-id encoding (SpecIds).  A string is the sequence of its       *)
(* characters.  processPrompt builds `${jobId}-${index padded}-${now}`     *)
(* (templateParser.ts, line 258); ImageGet and ImagesDownload split the id *)
(* at "-" and join its first five parts (imageGet.ts, lines 36-44).        *)
(***************************************************************************)

Hyphen == <<"-">>

DigitChars == <<"0", "1", "2", "3", "4", "5", "6", "7", "8", "9">>

\* String(n) for a natural number n.
RECURSIVE String(_)
String(n) ==
    IF n < 10 THEN <<DigitChars[n + 1]>>
    ELSE String(n \div 10) \o <<DigitChars[(n % 10) + 1]>>

\* str.padStart(targetLength, ch)
RECURSIVE padStart(_, _, _)
padStart(str, targetLength, ch) ==
    IF Len(str) >= targetLength THEN str
    ELSE padStart(<<ch>> \o str, targetLength, ch)

\* str.split("-"): the pieces between the hyphens, empty pieces included.
RECURSIVE splitFrom(_, _, _)
splitFrom(str, piece, parts) ==
    IF str = <<>> THEN Append(parts, piece)
    ELSE IF <<Head(str)>> = Hyphen
         THEN splitFrom(Tail(str), <<>>, Append(parts, piece))
         ELSE splitFrom(Tail(str), Append(piece, Head(str)), parts)

split(str) == splitFrom(str, <<>>, <<>>)

\* parts.join("-")
RECURSIVE join(_)
join(parts) ==
    IF parts = <<>> THEN <<>>
    ELSE IF Len(parts) = 1 THEN parts[1]
    ELSE parts[1] \o Hyphen \o join(Tail(parts))

\* parts.slice(0, n)
slice0(parts, n) == SubSeq(parts, 1, Min(n, Len(parts)))

\* The values crypto.randomUUID() can return, scaled down: five hyphen-free
\* groups of hexadecimal characters joined by hyphens.
HexGroups == {<<"a">>, <<"0", "f">>}

JobIds == {join(groups) : groups \in [1..5 -> HexGroups]}

Indexes == 0..MaxIndex

\* Values of Date.now(), of one and of two digits.
Stamps == {0, MaxStamp - 1, MaxStamp}

\* Mutant: the id is built from the job id and the timestamp only.
imageId_NoIndex(jobId, index, now) ==
    jobId \o Hyphen \o String(now)

\* `${jobId}-${String(prompt.index).padStart(4, "0")}-${Date.now()}`
imageId(jobId, index, now) ==
    jobId \o Hyphen \o padStart(String(index), 4, "0") \o Hyphen \o String(now)

\* Mutant: the job id is taken to be the first four parts.
parseImageId_FourParts(id) ==
    LET parts == split(id)
    IN  IF Len(parts) < 6
        THEN [valid |-> FALSE, jobId |-> <<>>]
        ELSE [valid |-> TRUE, jobId |-> join(slice0(parts, 4))]

\* ImageGet.handle / ImagesDownload.handle: the job id read from an image
\* id, or the id is rejected (400) or skipped.
parseImageId(id) ==
    LET parts == split(id)
    IN  IF Len(parts) < 6
        THEN [valid |-> FALSE, jobId |-> <<>>]
        ELSE [valid |-> TRUE, jobId |-> join(slice0(parts, 5))]

IdsInit ==
    /\ idJob \in JobIds /\ idIndex \in Indexes /\ idStamp \in Stamps
    /\ issuedId = NoId /\ decoded = NoResult
    /\ job = NoJob /\ lastOp = "none" /\ opThrew = FALSE /\ lateMerge = FALSE
    /\ IdleBatch /\ IdleExpand /\ IdleMerge /\ IdleFeed /\ IdleRead /\ IdleExtra

\* processPrompt builds the id of the image it stores.
IdIssue ==
    /\ issuedId = NoId
    /\ issuedId' = imageId(idJob, idIndex, idStamp)
    /\ UNCHANGED <<storeVars, batchVars, expandVars, mergeVars, feedVars, readVars, extraVars,
                   idJob, idIndex, idStamp, decoded>>

\* An image endpoint receives the id and reads the job id from it.
IdParse ==
    /\ issuedId # NoId /\ decoded = NoResult
    /\ decoded' = parseImageId(issuedId)
    /\ UNCHANGED <<storeVars, batchVars, expandVars, mergeVars, feedVars, readVars, extraVars,
                   idJob, idIndex, idStamp, issuedId>>

IdsNext == IdIssue \/ IdParse

SpecIds == IdsInit /\ [][IdsNext]_vars

\* C29: round trip of the image-id encoding: for a job id of five hyphen
\* separated groups, a prompt index >= 0 and any timestamp, the id built by
\* processPrompt has at least six hyphen separated parts, and joining its
\* first five parts gives back the job id, which is what ImageGet and
\* ImagesDownload read from it.
C29_JobIdRoundTrip ==
    /\ issuedId # NoId =>
          /\ Len(split(issuedId)) >= 6
          /\ join(SubSeq(split(issuedId), 1, 5)) = idJob
    /\ decoded # NoResult => (decoded.valid /\ decoded.jobId = idJob)

\* C29 witness: the id of prompt index 10 of a job whose id has groups of
\* two characters was issued with a two-digit timestamp and parsed back.
C29_Witness ==
    /\ decoded # NoResult /\ decoded.valid /\ decoded.jobId = idJob
    /\ idIndex = 10 /\ idStamp >= 10 /\ Len(idJob) = 14
    /\ Len(issuedId) = Len(idJob) + 8

\* Job ids that differ in their first or in their last group.
SomeJobIds ==
    {join(<<first, <<"a">>, <<"a">>, <<"a">>, last>>) :
        first \in HexGroups, last \in HexGroups}

\* The id of every (job id, prompt index, timestamp) of the sample.
IdTable ==
    [t \in SomeJobIds \X Indexes \X Stamps |-> imageId(t[1], t[2], t[3])]

\* Two images of different jobs, or of different prompt indexes of one job,
\* never get the same id, whatever Date.now() returned for each.
DifferentEntriesDifferentIds ==
    \A t1, t2 \in DOMAIN IdTable :
        IdTable[t1] = IdTable[t2] => (t1[1] = t2[1] /\ t1[2] = t2[2])

\* C28: image ids are unique.  Within one run the entries of completedImages
\* are images of different prompt indexes, and ids built from one job id and
\* different prompt indexes differ even when their timestamps are equal; ids
\* built from different job ids differ, whatever the indexes and timestamps.
C28_ImageIdsUnique ==
    /\ job # NoJob =>
          \A a, b \in DOMAIN job.completedImages :
              /\ ImagePrompt(job.completedImages[a]) \in Indexes
              /\ a # b => ImagePrompt(job.completedImages[a])
                             # ImagePrompt(job.completedImages[b])
    /\ DifferentEntriesDifferentIds

\* C28 witness: a run has stored the images of three prompts, the last two
\* generated in the same batch (and so, possibly, in the same millisecond).
C28_Witness ==
    /\ job # NoJob /\ Len(job.completedImages) = 3
    /\ mergesDone = 2 /\ batchSize = 2

\* C30: when every attempt fails retryably, exactly maxRetries (3) attempts
\* are made, with waits of 1000 and 2000 ms after attempts 0 and 1 and no
\* wait after the final attempt; the final failure is returned and the
\* prompt is recorded as one terminal error (and no image).  No prompt is
\* ever attempted more than maxRetries times.
C30_ExhaustedRetriesFailOnce ==
    \A p \in Prompts :
        /\ Len(hist[p]) <= maxRetries /\ genCalls[p] <= maxRetries
        /\ (\A i \in 1..Len(hist[p]) : hist[p][i] = "retryable") =>
              /\ delays[p] = [a \in 1..Min(Len(hist[p]), maxRetries - 1) |->
                                 baseDelayMs * Pow2(a - 1)]
              /\ Len(hist[p]) < maxRetries => tpc[p] \in {"idle", "fetch", "sleep"}
        /\ hist[p] = <<"retryable", "retryable", "retryable">> =>
              /\ genCalls[p] = 3
              /\ delays[p] = <<1000, 2000>>
              /\ tpc[p] = "failed"
              /\ Recorded(p) => (ErrorEntries(p) = 1 /\ ImageEntries(p) = 0)

\* C30 witness: a prompt whose three attempts all failed retryably is in the
\* stored record as one error.
C30_Witness ==
    \E p \in Prompts :
        /\ hist[p] = <<"retryable", "retryable", "retryable">>
        /\ tpc[p] = "failed" /\ Recorded(p)
        /\ ErrorEntries(p) = 1 /\ ImageEntries(p) = 0
        /\ delays[p] = <<1000, 2000>>

(***************************************************************************)
(* One generateImageWithRetry call on its own (SpecClient): the call of    *)
(* prompt 0, with the response of every generateImage call recorded.       *)
(***************************************************************************)
ClientInit ==
    /\ nPrompts = 1 /\ batchSize = 0 /\ bi = 0
    /\ hpc = "idle" /\ bpc = "idle"
    /\ tpc = [p \in {0} |-> "fetch"]
    /\ attempt = [p \in {0} |-> 0]
    /\ hist = [p \in {0} |-> <<>>]
    /\ genCalls = [p \in {0} |-> 1]
    /\ delays = [p \in {0} |-> <<>>]
    /\ calls = [p \in {0} |-> 1]
    /\ batchImages = <<>> /\ batchErrors = <<>>
    /\ jobLocal = NoJob /\ mergesDone = 0 /\ kvFailed = FALSE
    /\ job = NoJob /\ lastOp = "none" /\ opThrew = FALSE /\ lateMerge = FALSE
    /\ fetched = <<>> /\ IdleRequest /\ IdleRace /\ IdlePool
    /\ IdleExpand /\ IdleMerge /\ IdleFeed /\ IdleRead /\ IdleIds

\* The generateImage call returns: what it received is classified, and the
\* retry loop returns the result or sleeps before the next attempt.
ClientFetchReturn ==
    /\ tpc[0] = "fetch"
    /\ \E response \in Responses :
          LET result == generateImage(response)
              next == generateImageWithRetry(attempt[0], result)
          IN  /\ fetched' = Append(fetched, response)
              /\ hist' = [hist EXCEPT ![0] = Append(@, result)]
              /\ tpc' = [tpc EXCEPT ![0] =
                            CASE next = "success" -> "store"
                              [] next = "failure" -> "failed"
                              [] next = "sleep" -> "sleep"]
              /\ delays' = IF next = "sleep"
                           THEN [delays EXCEPT ![0] = Append(@, backoffDelay(attempt[0]))]
                           ELSE delays
    /\ UNCHANGED <<storeVars, hpc, bpc, nPrompts, batchSize, bi, attempt, genCalls,
                   calls, batchImages, batchErrors, jobLocal, mergesDone, kvFailed,
                   expandVars, mergeVars, feedVars, readVars, idVars, requestVars,
                   raceVars, poolVars>>

ClientNext == ClientFetchReturn \/ SleepDone(0)

SpecClient == ClientInit /\ [][ClientNext]_vars

\* The responses the claim calls malformed, and the client errors.
Malformed == {"noMessage", "noImage", "badDataUri"}
ClientErrors == {"http4xx"}

\* C31: an attempt whose response is malformed (no message, no image, an
\* image payload that is not a decodable base64 data URI) or a client error
\* (status below 500 other than 429) is classified non-retryable and is the
\* last attempt of the call, which fails; a 429, a status >= 500 and a
\* transport error are classified retryable.
C31_MalformedFailsWithoutRetry ==
    \A i \in 1..Len(fetched) :
        /\ fetched[i] \in Malformed \cup ClientErrors =>
              /\ hist[0][i] = "fatal"
              /\ i = Len(fetched)
              /\ tpc[0] = "failed" /\ genCalls[0] = i
        /\ fetched[i] \in {"http429", "http5xx", "transportError"} =>
              hist[0][i] = "retryable"

\* The fields of a Job Record that createJob fixes.
CreationFields(j) ==
    <<j.jobId, j.totalPrompts, j.startTime, j.model, j.aspectRatio, j.promptTemplate>>

\* C32: jobId, totalPrompts and startTime of a stored Job Record are fixed
\* at createJob and left unchanged by every later Job Store operation
\* (updateJobStatus, addCompletedImages, addJobErrors, updateJobProgress,
\* markJobFailed), as are model, aspectRatio and promptTemplate: a step
\* from a stored record to a stored record keeps them, and the stored
\* record always has the values createJob gave for its totalPrompts.
C32_CreationFieldsFixed ==
    /\ [][(job # NoJob /\ job' # NoJob) =>
            CreationFields(job') = CreationFields(job)]_vars
    /\ [](job # NoJob =>
            CreationFields(job) = CreationFields(createJob(job.totalPrompts)))

\* C32 witness: a status update was the last of several operations on a
\* record of three prompts that holds an image and two errors.
C32_Witness ==
    /\ job # NoJob /\ lastOp = "updateJobStatus" /\ ~opThrew
    /\ job.completedImages # <<>> /\ Len(job.errors) >= 2
    /\ job.totalPrompts = 3 /\ job.startTime = 0

RECURSIVE Flatten(_)
Flatten(seqs) == IF seqs = <<>> THEN <<>> ELSE Head(seqs) \o Flatten(Tail(seqs))

\* ceil(n / size) for n >= 0 and size >= 1.
CeilDiv(n, size) == (n + size - 1) \div size

\* C33: for a chunk size >= 1, chunk partitions the expanded prompts into
\* contiguous slices in index order that cover every prompt exactly once
\* (the slices put end to end are the prompt list); every slice but the
\* last has exactly the chunk size, the last has between 1 and the chunk
\* size, and there are ceil(n / size) slices.
C33_ChunkPartitions ==
    (nPrompts >= 1 /\ batchSize >= 1) =>
        LET slices == chunk(PromptList, batchSize)
        IN  /\ Flatten(slices) = PromptList
            /\ Len(slices) = CeilDiv(nPrompts, batchSize)
            /\ \A k \in 1..(Len(slices) - 1) : Len(slices[k]) = batchSize
            /\ Len(slices[Len(slices)]) \in 1..batchSize

\* C33 witness: three prompts in chunks of two, the short last chunk is
\* the one being processed.
C33_Witness ==
    /\ nPrompts = 3 /\ batchSize = 2 /\ bi = 2
    /\ chunk(PromptList, batchSize) = <<(<<0, 1>>), (<<2>>)>>
    /\ tpc[2] = "fetch"

\* C34: for every submission the Generate handler accepts, the effective
\* batch size it passes to processBatches equals min(requested batchSize,
\* configured MAX_BATCH_SIZE) and is an integer >= 1, so that the chunking
\* loop of processBatches terminates.
C34_EffectiveBatchSizeAtLeastOne ==
    (hpc \in {"createJob", "startRun", "responded", "blocked", "threw"}) =>
        /\ batchSize = Min(requestedBatchSize, maxBatchSize)
        /\ batchSize >= 1
        /\ bpc # "chunking"

\* C35: failedCount equals the number of recorded terminal failures: in
\* every Job Record reachable through createJob, addCompletedImages,
\* addJobErrors, updateJobProgress and markJobFailed,
\* failedCount = errors.length.
C35_FailedCountIsErrorsLength ==
    job # NoJob => job.failedCount = Len(job.errors)

\* values.reduce((acc, arr) => acc * arr.length, 1) over the lists of the
\* entries named in S.
RECURSIVE reduceLengths(_, _)
reduceLengths(S, vs) ==
    IF S = {} THEN 1
    ELSE LET n == CHOOSE n \in S : TRUE
         IN  reduceLengths(S \ {n}, vs) * Len(vs[n])

\* calculateCombinations: the product over Object.values(variables), every
\* entry of the assignment.
calculateCombinations(vs) ==
    IF DOMAIN vs = {} THEN 1 ELSE reduceLengths(DOMAIN vs, vs)

\* C36: for every template and assignment that pass validateVariables,
\* calculateCombinations(assignment) equals the number of prompts
\* expandTemplate(template, assignment) returns, and is 1 when the template
\* has no placeholders.
C36_EstimateEqualsExpansion ==
    expansion # NoResult =>
        /\ calculateCombinations(variables) = Len(expansion.prompts)
        /\ PlaceholderSet(template) = {} => calculateCombinations(variables) = 1

(***************************************************************************)
(* SpecRace: two updateJobProgress calls for the same job that overlap     *)
(* (jobManager.ts 128-154).  Each call awaits getJob, changes the object   *)
(* getJob parsed for it, and awaits kv.put of that object; the event loop  *)
(* may run the other call at either await.  Call c is given entries whose  *)
(* index is c, and the entries stored before the two calls have index 0,   *)
(* so that the entries can be told apart.                                  *)
(***************************************************************************)
Callers == {1, 2}

RaceLists(c) == {[k \in 1..n |-> StoreImage(c)] : n \in 0..MaxMerge}

RaceErrors(c) == {[k \in 1..n |-> StoreError(c)] : n \in 0..MaxMerge}

RaceInit ==
    /\ \E n \in 1..MaxTotal, images \in RaceLists(0), errors \in RaceErrors(0) :
          job \in {createJob(n), updateJobProgress(createJob(n), images, errors)}
    /\ lastOp = "createJob" /\ opThrew = FALSE /\ lateMerge = FALSE
    /\ \E i1 \in RaceLists(1), e1 \in RaceErrors(1),
          i2 \in RaceLists(2), e2 \in RaceErrors(2) :
          racer = [c \in Callers |->
                     [pc |-> "get", base |-> NoJob,
                      completedImages |-> IF c = 1 THEN i1 ELSE i2,
                      errors |-> IF c = 1 THEN e1 ELSE e2]]
    /\ raceLog = <<>>
    /\ IdleBatch /\ IdleExpand /\ IdleMerge /\ IdleFeed /\ IdleRead /\ IdleIds
    /\ IdleClient /\ IdleRequest /\ IdlePool

\* const job = await getJob(kv, jobId): the call holds the record it read,
\* or getJob threw.
RaceGet(c) ==
    /\ racer[c].pc = "get"
    /\ \/ /\ racer' = [racer EXCEPT ![c].pc = "put", ![c].base = job]
          /\ raceLog' = Append(raceLog, [op |-> "get", caller |-> c])
       \/ /\ racer' = [racer EXCEPT ![c].pc = "threw"]
          /\ UNCHANGED raceLog
    /\ UNCHANGED <<storeVars, batchVars, expandVars, mergeVars, feedVars, readVars,
                   idVars, clientVars, requestVars, poolVars>>

\* Mutant: the call reads the record again when it writes.
mergeBase_ReadsAgain(c) == job

\* The record a call changes and writes is the object its own getJob
\* returned.
mergeBase(c) == racer[c].base

\* await kv.put(`job:${jobId}`, JSON.stringify(job)): the whole record is
\* written and the call returns, or kv.put threw.
RacePut(c) ==
    /\ racer[c].pc = "put"
    /\ \/ /\ job' = updateJobProgress(mergeBase(c), racer[c].completedImages,
                                      racer[c].errors)
          /\ racer' = [racer EXCEPT ![c].pc = "returned"]
          /\ raceLog' = Append(raceLog, [op |-> "put", caller |-> c])
       \/ /\ racer' = [racer EXCEPT ![c].pc = "threw"]
          /\ UNCHANGED <<job, raceLog>>
    /\ UNCHANGED <<lastOp, opThrew, lateMerge, batchVars, expandVars, mergeVars,
                   feedVars, readVars, idVars, clientVars, requestVars, poolVars>>

RaceNext == \E c \in Callers : RaceGet(c) \/ RacePut(c)

SpecRace == RaceInit /\ [][RaceNext]_vars

BothReadFirst ==
    /\ Len(raceLog) >= 2
    /\ raceLog[1].op = "get" /\ raceLog[2].op = "get"

BothReturned == \A c \in Callers : racer[c].pc = "returned"

LastWriter == raceLog[Len(raceLog)].caller

\* C37: updateJobProgress is a read-modify-write that is not atomic, and
\* the last writer wins: when two calls for the same job both read the
\* record before either writes, then after both have returned the stored
\* record holds what the two calls read plus the images and errors of the
\* call that wrote last only; the entries of the other call and its
\* failedCount increment are lost.
C37_LastWriterWins ==
    (BothReadFirst /\ BothReturned) =>
        LET last == LastWriter
            other == CHOOSE c \in Callers : c # last
            start == racer[other].base
        IN  /\ racer[last].base = start
            /\ job.completedImages = start.completedImages \o racer[last].completedImages
            /\ job.errors = start.errors \o racer[last].errors
            /\ job.failedCount = start.failedCount + Len(racer[last].errors)
            /\ \A k \in 1..Len(job.completedImages) :
                  job.completedImages[k].index # other
            /\ \A k \in 1..Len(job.errors) : job.errors[k].index # other

\* C37 witness: both calls read, then both wrote, call 1 last; call 2 was
\* given an image and an error, and the stored record holds neither.
C37_Witness ==
    /\ BothReadFirst /\ BothReturned /\ LastWriter = 1
    /\ Len(racer[2].completedImages) = 1 /\ Len(racer[2].errors) = 1
    /\ Len(racer[1].completedImages) = 1
    /\ job.failedCount = racer[1].base.failedCount + Len(racer[1].errors)

(***************************************************************************)
(* SpecPool: one call runWithConcurrency(items, fn, concurrency)           *)
(* (templateParser.ts 201-226).  Item i of items is i, for i in            *)
(* 0..items.length-1.  What fn does with an item is the environment's      *)
(* choice: its promise is fulfilled or rejected.  A settled outcome keeps  *)
(* the item fn was called with.                                            *)
(***************************************************************************)
PoolItems == DOMAIN results

Outcome(status, i) == [status |-> status, item |-> i]

EmptySlot == [status |-> "empty", item |-> -1]

PoolInit ==
    /\ ppc = "called"
    /\ concurrency \in 1..MaxBatch
    /\ \E n \in 0..MaxTotal : results = [i \in 0..(n - 1) |-> EmptySlot]
    /\ settled = [i \in PoolItems |-> <<>>]
    /\ nextIndex = 0 /\ workers = <<>>
    /\ job = NoJob /\ lastOp = "none" /\ opThrew = FALSE /\ lateMerge = FALSE
    /\ IdleBatch /\ IdleExpand /\ IdleMerge /\ IdleFeed /\ IdleRead /\ IdleIds
    /\ IdleClient /\ IdleRequest /\ IdleRace

\* Mutant: one worker more than the concurrency argument.
workerCount_OneMore(c, n) == Min(c + 1, n)

\* Array.from({ length: Math.min(concurrency, items.length) }, ...)
workerCount(c, n) == Min(c, n)

\* Array.from(..., () => worker()): the workers are started one after the
\* other; each runs up to its first await, so worker w finds the cursor at
\* w - 1, takes that index if there is such an item and calls fn, or
\* leaves its loop at once.  Then the call awaits Promise.all(workers).
PoolStart ==
    /\ ppc = "called"
    /\ LET n == Cardinality(PoolItems)
           k == workerCount(concurrency, n)
       IN  /\ workers' = [w \in 1..k |->
                            IF w - 1 < n THEN [pc |-> "await", index |-> w - 1]
                                         ELSE [pc |-> "done", index |-> -1]]
           /\ nextIndex' = Min(k, n)
    /\ ppc' = "awaitAll"
    /\ UNCHANGED <<storeVars, batchVars, expandVars, mergeVars, feedVars, readVars,
                   idVars, clientVars, requestVars, raceVars, concurrency, results,
                   settled>>

\* The promise of fn(items[index]) settles, worker w stores the outcome in
\* results[index] (try: fulfilled, catch: rejected) and goes round its
\* loop: while (nextIndex < items.length) { const index = nextIndex++; ... }
PoolSettle(w) ==
    /\ ppc = "awaitAll"
    /\ w \in DOMAIN workers
    /\ workers[w].pc = "await"
    /\ \E status \in {"fulfilled", "rejected"} :
          LET index == workers[w].index
              outcome == Outcome(status, index)
          IN  /\ results' = [results EXCEPT ![index] = outcome]
              /\ settled' = [settled EXCEPT ![index] = Append(@, outcome)]
    /\ IF nextIndex < Cardinality(PoolItems)
       THEN /\ workers' = [workers EXCEPT ![w] = [pc |-> "await", index |-> nextIndex]]
            /\ nextIndex' = nextIndex + 1
       ELSE /\ workers' = [workers EXCEPT ![w] = [pc |-> "done", index |-> -1]]
            /\ UNCHANGED nextIndex
    /\ UNCHANGED <<storeVars, batchVars, expandVars, mergeVars, feedVars, readVars,
                   idVars, clientVars, requestVars, raceVars, ppc, concurrency>>

\* await Promise.all(workers); return results
PoolReturn ==
    /\ ppc = "awaitAll"
    /\ \A w \in DOMAIN workers : workers[w].pc = "done"
    /\ ppc' = "returned"
    /\ UNCHANGED <<storeVars, batchVars, expandVars, mergeVars, feedVars, readVars,
                   idVars, clientVars, requestVars, raceVars, concurrency, nextIndex,
                   workers, results, settled>>

PoolNext ==
    \/ PoolStart
    \/ \E w \in 1..(MaxBatch + 1) : PoolSettle(w)
    \/ PoolReturn

SpecPool == PoolInit /\ [][PoolNext]_vars

\* The workers whose fn call has not settled, and those holding item i.
PoolInFlight == {w \in DOMAIN workers : workers[w].pc = "await"}

Holding(i) == {w \in PoolInFlight : workers[w].index = i}

\* The number of times item i has been passed to fn so far.
Passed(i) == Len(settled[i]) + Cardinality(Holding(i))

\* C38: runWithConcurrency(items, fn, c) with c >= 1 starts
\* min(c, items.length) workers that pull from one shared index cursor:
\* every item is passed to fn exactly once (the items passed so far are
\* those below the cursor, each once; on return, all of them), at most c
\* calls of fn are in flight at any time, a call of fn that throws does not
\* stop its worker (a worker leaves only when the cursor has passed the
\* last item), and on return results[i] is the settled outcome of items[i]
\* for every i.
C38_PoolRunsEachItemOnce ==
    (ppc \in {"awaitAll", "returned"}) =>
        /\ DOMAIN workers = 1..Min(concurrency, Cardinality(PoolItems))
        /\ \A i \in PoolItems : Passed(i) = (IF i < nextIndex THEN 1 ELSE 0)
        /\ Cardinality(PoolInFlight) <= concurrency
        /\ \A w \in DOMAIN workers :
              workers[w].pc = "done" => nextIndex >= Cardinality(PoolItems)
        /\ ppc = "returned" =>
              \A i \in PoolItems :
                 /\ Passed(i) = 1 /\ Len(settled[i]) = 1
                 /\ results[i] = settled[i][1]
                 /\ results[i].item = i

\* C38 witness: four items and two workers; the first call of each worker
\* was rejected, the two workers went on to the other two items, and the
\* call has returned.
C38_Witness ==
    /\ ppc = "returned" /\ concurrency = 2 /\ Cardinality(PoolItems) = 4
    /\ results[0].status = "rejected" /\ results[1].status = "rejected"
    /\ results[2].status = "fulfilled" /\ results[3].status = "rejected"

\* Prompt p was generated and its storeImage threw.
StoreThrew(p) == tpc[p] = "threw" /\ hist[p] # <<>> /\ hist[p][Len(hist[p])] = "ok"

\* C39: if storeImage throws after a successful generation, that prompt is
\* never recorded as a completed image, and once its chunk is merged it is
\* recorded as exactly one failure, an errors entry counted in failedCount;
\* the other prompts of the chunk are recorded as if it had not happened (a
\* stored image as one image, a failed generation as one error); and the
\* job still reaches complete (no Job Store call failing).
C39_StorageFailureIsOneFailure ==
    /\ [](\A p \in Prompts :
            StoreThrew(p) =>
               /\ job # NoJob => ImageEntries(p) = 0
               /\ Recorded(p) =>
                     /\ ErrorEntries(p) = 1
                     /\ job.failedCount = Len(job.errors)
                     /\ \A q \in Prompts \ {p} :
                           BatchOf(q) = BatchOf(p) =>
                              /\ tpc[q] = "ok" =>
                                    (ImageEntries(q) = 1 /\ ErrorEntries(q) = 0)
                              /\ tpc[q] = "failed" =>
                                    (ImageEntries(q) = 0 /\ ErrorEntries(q) = 1))
    /\ (\E p \in Prompts : StoreThrew(p)) ~> (kvFailed \/ RunComplete)

\* C39 witness: in a chunk of three the storage of one image threw, one
\* image was stored and one generation failed; the run has returned and
\* the record is complete with one image and two failures.
C39_Witness ==
    /\ RunComplete /\ ~kvFailed /\ nPrompts = 3 /\ batchSize = 3
    /\ StoreThrew(1) /\ tpc[0] = "ok" /\ tpc[2] = "failed"
    /\ Len(job.completedImages) = 1 /\ job.failedCount = 2

\* No candidate value holds a replacement pattern of String.replace.
NoPatternInValues(vs) ==
    \A n \in DOMAIN vs : \A k \in DOMAIN vs[n] : \A j \in DOMAIN vs[n][k] :
        vs[n][k][j].kind # "dollar"

\* C40: substitution is simultaneous with respect to candidate values: for
\* every validated template and assignment, those in which a candidate
\* value holds the token of another placeholder of the template included,
\* each expanded prompt is the template with each placeholder token
\* replaced by its assigned value, and text that came from a value is not
\* substituted again.  Stated for the assignments none of whose values
\* holds a replacement pattern.
C40_SubstitutionSimultaneous ==
    (expansion # NoResult /\ NoPatternInValues(variables)) =>
        \A i \in DOMAIN expansion.prompts :
            expansion.prompts[i].prompt
               = SubstituteAll(template, expansion.prompts[i].variableValues)

====
